---- MODULE Spec2Model ----
(***************************************************************************)
(* Model of the SpotifyDJ terminal dashboard core (src/spotifydj.ts):      *)
(*   - PhraseCounter.calculate, the phrase/beat clock;                     *)
(*   - TerminalRenderer.writeFrame / resetFrameCache, the frame-diffing    *)
(*     renderer with its previousFrame baseline.                           *)
(*   - TerminalRenderer.renderTrainBoard, the dashboard layout that ends   *)
(*     in writeFrame, driven as the demo driver (src/ts_sandbox.ts) does.  *)
(* JavaScript numbers are modelled as exact rationals [num, den]; a        *)
(* display row is a string, '' being the empty row; Date.now() is the      *)
(* variable now; process.stdout.rows is the variable stdoutRows (0 stands  *)
(* for an undefined row count).                                            *)
(***************************************************************************)
EXTENDS Integers, Sequences, FiniteSets, TLC

VARIABLES
    now,            \* Date.now(), in milliseconds
    stdoutRows,     \* process.stdout.rows (0: undefined, not a TTY)
    previousFrame,  \* TerminalRenderer.previousFrame
    shared,         \* TRUE iff previousFrame is the very array object the caller holds
    lines,          \* the array the caller passed to writeFrame (the caller keeps it)
    written,        \* the process.stdout.write calls of the last operation, in order
    writtenBefore,  \* those of the middle call, when hist holds a round trip A, B, A
    call,           \* the last renderer operation: its arguments and what it saw
    hist,           \* the latest writeFrame calls since the baseline or the geometry changed
    calcArgs,       \* arguments of the last PhraseCounter.calculate call
    phraseInfo,     \* result of the last PhraseCounter.calculate call
    calcDone,       \* TRUE once calculate has been called
    stdoutColumns,  \* process.stdout.columns (0: undefined, not a TTY)
    boardArgs,      \* what the caller of renderTrainBoard holds: track, recommendations, UI state
    board,          \* the last renderTrainBoard call: its arguments, clock, geometry and result
    screen,         \* the rows the terminal shows, top to bottom (<<>>: no terminal is watched)
    probe           \* the last call of a drawing helper on its own: its arguments and result

vars == <<now, stdoutRows, previousFrame, shared, lines, written, writtenBefore, call, hist,
          calcArgs, phraseInfo, calcDone, stdoutColumns, boardArgs, board, screen, probe>>

rendererVars == <<stdoutRows, previousFrame, shared, lines, written, writtenBefore, call, hist>>
phraseVars == <<calcArgs, phraseInfo, calcDone>>
boardVars == <<stdoutColumns, boardArgs, board>>

(***************************************************************************)
(* Bounds of the model.                                                    *)
(***************************************************************************)
MaxLen == 2         \* longest frame a caller passes to writeFrame
MaxRows == 2        \* largest terminal height process.stdout.rows reports
MaxTicks == 6       \* the clock takes the values ClockStepMs * (1..MaxTicks)
ClockStepMs == 250  \* granularity of the modelled clock
MaxBoardTicks == 3  \* the board is watched while the clock takes its first MaxBoardTicks values
MaxOffset == 3      \* the scroll offsets a caller passes run from -2 to MaxOffset, and far beyond

RowTexts == {"", "a", "b"}
Frames == UNION {[1..n -> RowTexts] : n \in 0..MaxLen}

BpmValues == {0 - 120, 0, 60, 100, 120}
ProgressValues == {0, 250, 1000, 15750, 16000}
ClockValues == {k * ClockStepMs : k \in 1..MaxTicks}
TimestampValues == {0 - ClockStepMs, 0} \cup ClockValues \cup {(MaxTicks + 2) * ClockStepMs}
\* an optional number: <<>> is undefined, <<n>> is the number n
SignatureValues == {<<>>, <<0>>, <<3>>, <<4>>, <<5>>}

\* <<process.stdout.columns, process.stdout.rows>> of the terminals the board is drawn on:
\* not a TTY (80 x 24 assumed), and a small window
BoardSizes == {<<0, 0>>, <<50, 12>>}

Min(a, b) == IF a < b THEN a ELSE b
Max(a, b) == IF a > b THEN a ELSE b

(***************************************************************************)
(* Exact rational arithmetic standing for JavaScript floating point.       *)
(***************************************************************************)
Abs(n) == IF n < 0 THEN 0 - n ELSE n

RECURSIVE GCD(_, _)
GCD(a, b) == IF b = 0 THEN a ELSE GCD(b, a % b)

\* the rational n/d (d # 0) in lowest terms with a positive denominator
Rat(n, d) ==
    LET g == GCD(Abs(n), Abs(d))
        s == IF d < 0 THEN 0 - 1 ELSE 1
    IN [num |-> (s * n) \div g, den |-> (s * d) \div g]

Num(n) == [num |-> n, den |-> 1]
RatAdd(a, b) == Rat(a.num * b.den + b.num * a.den, a.den * b.den)
RatSub(a, b) == Rat(a.num * b.den - b.num * a.den, a.den * b.den)
RatMul(a, b) == Rat(a.num * b.num, a.den * b.den)
RatDiv(a, b) == Rat(a.num * b.den, a.den * b.num)
RatLe(a, b) == a.num * b.den <= b.num * a.den
RatLt(a, b) == a.num * b.den < b.num * a.den
\* Math.floor
RatFloor(a) == a.num \div a.den
\* truncation toward zero, as the JavaScript % operator truncates its quotient
RatTrunc(a) == IF a.num >= 0 THEN a.num \div a.den ELSE 0 - ((0 - a.num) \div a.den)
\* JavaScript a % m: the remainder takes the sign of the dividend
RatRem(a, m) == RatSub(a, RatMul(m, Num(RatTrunc(RatDiv(a, m)))))

(***************************************************************************)
(* PhraseCounter.calculate                                                 *)
(***************************************************************************)
beatsInPhrase == 32
MsPerMinute == 60000
MsPerSecond == 1000

PhraseDefault == [beatsRemaining |-> Num(32), timeRemainingSeconds |-> Num(0), phraseCount |-> 1]
PhraseZero == [beatsRemaining |-> Num(0), timeRemainingSeconds |-> Num(0), phraseCount |-> 0]

\* JavaScript truthiness of an optional number: undefined and 0 are falsy
Truthy(opt) == opt # <<>> /\ opt[1] # 0

\* lines 61-87: the part of calculate after the bpm guard
calculateBody(bpm, progressMs, timestamp, timeSignature, isPlaying, nowMs) ==
    LET safeTimestamp == IF timestamp > 0 THEN timestamp ELSE nowMs
        elapsed == IF isPlaying THEN nowMs - safeTimestamp ELSE 0
        currentProgressMs == progressMs + elapsed
        beatDurationMs == RatDiv(Num(MsPerMinute), Num(bpm))
        totalBeats == RatDiv(Num(currentProgressMs), beatDurationMs)
    IN  IF Truthy(timeSignature) /\ timeSignature[1] # 4
        THEN PhraseZero
        ELSE LET positionInPhrase == RatRem(totalBeats, Num(beatsInPhrase))
                 beatsRemaining == RatSub(Num(beatsInPhrase), positionInPhrase)
                 timeRemainingSeconds ==
                     RatDiv(RatMul(beatsRemaining, beatDurationMs), Num(MsPerSecond))
                 phraseCount == RatFloor(positionInPhrase) + 1
             IN [beatsRemaining |-> beatsRemaining,
                 timeRemainingSeconds |-> timeRemainingSeconds,
                 phraseCount |-> phraseCount]

\* mutant: the time-signature test moved in front of the bpm guard
calculateSignatureFirst(bpm, progressMs, timestamp, timeSignature, isPlaying, nowMs) ==
    IF Truthy(timeSignature) /\ timeSignature[1] # 4
    THEN PhraseZero
    ELSE IF bpm <= 0
         THEN PhraseDefault
         ELSE calculateBody(bpm, progressMs, timestamp, timeSignature, isPlaying, nowMs)

\* mutant: the time-signature test dropped
calculateNoSignatureTest(bpm, progressMs, timestamp, timeSignature, isPlaying, nowMs) ==
    IF bpm <= 0
    THEN PhraseDefault
    ELSE calculateBody(bpm, progressMs, timestamp, <<>>, isPlaying, nowMs)

\* mutant: the elapsed time added whether or not the track is playing
calculateAlwaysElapsed(bpm, progressMs, timestamp, timeSignature, isPlaying, nowMs) ==
    IF bpm <= 0
    THEN PhraseDefault
    ELSE calculateBody(bpm, progressMs, timestamp, timeSignature, TRUE, nowMs)

calculate(bpm, progressMs, timestamp, timeSignature, isPlaying, nowMs) ==
    IF bpm <= 0
    THEN PhraseDefault
    ELSE calculateBody(bpm, progressMs, timestamp, timeSignature, isPlaying, nowMs)

(***************************************************************************)
(* TerminalRenderer: writeFrame and resetFrameCache                        *)
(***************************************************************************)
DefaultRows == 24

\* process.stdout.rows || 24
TerminalHeightOf(rows) == IF rows = 0 THEN DefaultRows ELSE rows

\* Array.prototype.slice(0, end) for end >= 0
SliceTo(arr, end) == SubSeq(arr, 1, Min(end, Len(arr)))

\* arr[i] ?? '' for a 0-based index i
RowAt(arr, i) == IF i < Len(arr) THEN arr[i + 1] ELSE ""

\* the pieces joined into the output buffer
CursorHome == [op |-> "home", row |-> 1, text |-> ""]            \* \x1b[H
RowWrite(row, text) == [op |-> "row", row |-> row, text |-> text]  \* \x1b[row;1H text \x1b[0K

\* lines 333-339: the loop over the row indices i..maxRows-1
RECURSIVE DiffLoop(_, _, _, _)
DiffLoop(i, maxRows, clippedLines, prevFrame) ==
    IF i >= maxRows
    THEN <<>>
    ELSE LET next == RowAt(clippedLines, i)
             prev == RowAt(prevFrame, i)
         IN (IF next # prev THEN <<RowWrite(i + 1, next)>> ELSE <<>>)
                \o DiffLoop(i + 1, maxRows, clippedLines, prevFrame)

\* mutant: the loop runs over the new frame's rows only
writeFrameNewRowsOnly(rows, prevFrame, terminalHeight) ==
    LET clippedLines == SliceTo(rows, terminalHeight)
        buffer == <<CursorHome>> \o DiffLoop(0, Len(clippedLines), clippedLines, prevFrame)
    IN [writes |-> IF Len(buffer) > 0 THEN <<buffer>> ELSE <<>>,
        previousFrame |-> clippedLines,
        shared |-> FALSE,
        lines |-> rows]

\* mutant: the baseline only grows (rows of a longer earlier frame are kept)
writeFrameAppendOnly(rows, prevFrame, terminalHeight) ==
    LET clippedLines == SliceTo(rows, terminalHeight)
        maxRows == Max(Len(clippedLines), Len(prevFrame))
        buffer == <<CursorHome>> \o DiffLoop(0, maxRows, clippedLines, prevFrame)
    IN [writes |-> IF Len(buffer) > 0 THEN <<buffer>> ELSE <<>>,
        previousFrame |-> clippedLines
                            \o SubSeq(prevFrame, Len(clippedLines) + 1, Len(prevFrame)),
        shared |-> FALSE,
        lines |-> rows]

\* mutant: the caller's array itself is kept as the baseline
writeFrameKeepsArgument(rows, prevFrame, terminalHeight) ==
    LET clippedLines == SliceTo(rows, terminalHeight)
        maxRows == Max(Len(clippedLines), Len(prevFrame))
        buffer == <<CursorHome>> \o DiffLoop(0, maxRows, clippedLines, prevFrame)
    IN [writes |-> IF Len(buffer) > 0 THEN <<buffer>> ELSE <<>>,
        previousFrame |-> rows,
        shared |-> TRUE,
        lines |-> rows]

\* mutant: every piece of the buffer flushed on its own
writeFramePerRowFlush(rows, prevFrame, terminalHeight) ==
    LET clippedLines == SliceTo(rows, terminalHeight)
        maxRows == Max(Len(clippedLines), Len(prevFrame))
        buffer == <<CursorHome>> \o DiffLoop(0, maxRows, clippedLines, prevFrame)
    IN [writes |-> [k \in 1..Len(buffer) |-> <<buffer[k]>>],
        previousFrame |-> clippedLines,
        shared |-> FALSE,
        lines |-> rows]

\* the loop of a renderer that never writes an empty row
RECURSIVE DiffLoopSkippingBlank(_, _, _, _)
DiffLoopSkippingBlank(i, maxRows, clippedLines, prevFrame) ==
    IF i >= maxRows
    THEN <<>>
    ELSE LET next == RowAt(clippedLines, i)
             prev == RowAt(prevFrame, i)
         IN (IF next # prev /\ next # "" THEN <<RowWrite(i + 1, next)>> ELSE <<>>)
                \o DiffLoopSkippingBlank(i + 1, maxRows, clippedLines, prevFrame)

\* mutant: rows that became empty are left as they were on the terminal
writeFrameSkipsBlankRows(rows, prevFrame, terminalHeight) ==
    LET clippedLines == SliceTo(rows, terminalHeight)
        maxRows == Max(Len(clippedLines), Len(prevFrame))
        buffer == <<CursorHome>> \o DiffLoopSkippingBlank(0, maxRows, clippedLines, prevFrame)
    IN [writes |-> IF Len(buffer) > 0 THEN <<buffer>> ELSE <<>>,
        previousFrame |-> clippedLines,
        shared |-> FALSE,
        lines |-> rows]

\* lines 322-346: what writeFrame(rows) does, given the baseline and the sampled height:
\* the stdout writes it makes, the new baseline, whether the baseline is the caller's
\* own array object, and the caller's array afterwards
writeFrame(rows, prevFrame, terminalHeight) ==
    LET clippedLines == SliceTo(rows, terminalHeight)
        maxRows == Max(Len(clippedLines), Len(prevFrame))
        buffer == <<CursorHome>> \o DiffLoop(0, maxRows, clippedLines, prevFrame)
    IN [writes |-> IF Len(buffer) > 0 THEN <<buffer>> ELSE <<>>,
        previousFrame |-> clippedLines,   \* clippedLines.slice(): a fresh array
        shared |-> FALSE,
        lines |-> rows]                   \* slice() leaves its receiver alone

(***************************************************************************)
(* The layout: renderTrainBoard and the helpers that build its rows.       *)
(* Rows are strings.  An ANSI style code is written as a short tag ("<b>"  *)
(* for bright, "<r>" for reset, ...), and a non-ASCII glyph as an ASCII    *)
(* stand-in of the same string length.                                     *)
(***************************************************************************)
reset == "<r>"
bright == "<b>"
dim == "<d>"
red == "<red>"
yellow == "<yel>"
magenta == "<mag>"
white == "<wht>"
bgBlue == "<bgblue>"
spotifyGreen == "<sgreen>"
zshGreen == "<green>"
zshBlue == "<blue>"
zshYellow == "<yel>"
FRAME_BASE_COLOR == bright \o "<cyan>"
FRAME_RIPPLE_COLOR == spotifyGreen \o bright
RIPPLE_GLYPH == "%"
RIPPLE_BAND == 5
RIPPLE_STEP_MS == 90
BASE_BAR_BG == "<bg 30;30;30>"
\* SCAN_GRADIENT = [0.3, 0.6, 1, 0.6, 0.3]
SCAN_GRADIENT == <<Rat(3, 10), Rat(6, 10), Num(1), Rat(6, 10), Rat(3, 10)>>
VERSION == "vX.Y.Z"

\* String.prototype.repeat
RECURSIVE Repeat(_, _)
Repeat(str, n) ==
    IF n <= 0 THEN ""
    ELSE IF n = 1 THEN str
    ELSE Repeat(str, n \div 2) \o Repeat(str, n - n \div 2)

\* a rounding that drops the fraction
RatRoundDown(a) == RatFloor(a)

\* Math.round: the nearest integer, halves rounded up
RatRound(a) == RatFloor(RatAdd(a, Rat(1, 2)))

\* Number.prototype.toFixed(1)
ToFixed1(a) ==
    LET mag == IF a.num < 0 THEN Rat(0 - a.num, a.den) ELSE a
        n == RatFloor(RatAdd(RatMul(mag, Num(10)), Rat(1, 2)))
    IN (IF a.num < 0 THEN "-" ELSE "") \o ToString(n \div 10) \o "." \o ToString(n % 10)

\* lines 92-97: center(text, width), visibleWidth being the text's width without styles
center(text, visibleWidth, width) ==
    IF visibleWidth >= width THEN text
    ELSE LET padLeft == (width - visibleWidth) \div 2
         IN Repeat(" ", padLeft) \o text \o Repeat(" ", width - visibleWidth - padLeft)

\* lines 108-119
buildRippleState(frameWidth, frameHeight, isActive, nowMs) ==
    LET virtualHeight == Max(6, Min(frameHeight, 60))
        cycle == frameWidth + virtualHeight
        phase == (nowMs \div RIPPLE_STEP_MS) % cycle
    IN [active |-> isActive, band |-> RIPPLE_BAND, cycle |-> cycle, phase |-> phase]

\* lines 121-132
isInRipple(row, col, ripple) ==
    IF ~ripple.active THEN FALSE
    ELSE LET position == (row + col) % ripple.cycle
             windowEnd == (ripple.phase + ripple.band) % ripple.cycle
         IN IF ripple.phase <= windowEnd
            THEN position >= ripple.phase /\ position <= windowEnd
            ELSE position >= ripple.phase \/ position <= windowEnd

\* lines 134-145
colorizeFrameChar(ch, row, col, ripple, useRippleGlyph) ==
    LET active == isInRipple(row, col, ripple)
        glyph == IF active /\ useRippleGlyph THEN RIPPLE_GLYPH ELSE ch
        color == IF active THEN FRAME_RIPPLE_COLOR ELSE FRAME_BASE_COLOR
    IN color \o glyph \o reset

\* lines 158-164: the cell at col of a border line
BorderCell(col, width, rowIndex, ripple, isBottom) ==
    IF col = 0
    THEN colorizeFrameChar(IF isBottom THEN "L" ELSE "F", rowIndex, col, ripple, FALSE)
    ELSE IF col = width + 1
         THEN colorizeFrameChar(IF isBottom THEN "J" ELSE "7", rowIndex, col, ripple, FALSE)
         ELSE colorizeFrameChar("=", rowIndex, col, ripple, TRUE)

\* the cells first..last of a border line, left to right
RECURSIVE BorderSpan(_, _, _, _, _, _)
BorderSpan(first, last, width, rowIndex, ripple, isBottom) ==
    IF first > last THEN ""
    ELSE IF first = last THEN BorderCell(first, width, rowIndex, ripple, isBottom)
    ELSE BorderSpan(first, (first + last) \div 2, width, rowIndex, ripple, isBottom)
            \o BorderSpan((first + last) \div 2 + 1, last, width, rowIndex, ripple, isBottom)

\* lines 157-165: the cells col..width+1 of a border line
BorderCells(col, width, rowIndex, ripple, isBottom) ==
    BorderSpan(col, width + 1, width, rowIndex, ripple, isBottom)

\* lines 147-168
buildRippleBorderLine(width, rowIndex, ripple, isBottom) ==
    BorderCells(0, width, rowIndex, ripple, isBottom)

\* lines 170-180; title is the styled text, titleWidth its visible width
buildRippleTitleLine(title, titleWidth, width, rowIndex, ripple) ==
    LET centeredTitle == center(title, titleWidth, width)
        leftBorder == colorizeFrameChar("|", rowIndex, 0, ripple, FALSE)
        rightBorder == colorizeFrameChar("|", rowIndex, width + 1, ripple, FALSE)
    IN leftBorder \o FRAME_BASE_COLOR \o centeredTitle \o reset \o rightBorder \o reset

\* lines 192-227
getScanSettings(beatsRemaining) ==
    IF RatLe(beatsRemaining, Num(8))
    THEN [speedMs |-> 0, pulseWidth |-> Len(SCAN_GRADIENT),
          baseColor |-> [r |-> 210, g |-> 90, b |-> 50], freeze |-> TRUE]
    ELSE IF RatLe(beatsRemaining, Num(16))
    THEN [speedMs |-> 50, pulseWidth |-> Len(SCAN_GRADIENT),
          baseColor |-> [r |-> 210, g |-> 160, b |-> 60], freeze |-> FALSE]
    ELSE IF RatLe(beatsRemaining, Num(32))
    THEN [speedMs |-> 100, pulseWidth |-> Len(SCAN_GRADIENT),
          baseColor |-> [r |-> 70, g |-> 160, b |-> 180], freeze |-> FALSE]
    ELSE [speedMs |-> 250, pulseWidth |-> Len(SCAN_GRADIENT),
          baseColor |-> [r |-> 40, g |-> 110, b |-> 130], freeze |-> FALSE]

\* lines 229-235
makeBg(color, factor) ==
    LET clamp(v) == Max(0, Min(255, RatRound(v)))
        r == clamp(RatMul(Num(color.r), factor))
        g == clamp(RatMul(Num(color.g), factor))
        b == clamp(RatMul(Num(color.b), factor))
    IN "<bg " \o ToString(r) \o ";" \o ToString(g) \o ";" \o ToString(b) \o ">"

\* lines 237-242
getPulseCenter(length, scan, nowMs) ==
    IF scan.freeze \/ scan.speedMs <= 0
    THEN length \div 2
    ELSE (nowMs \div scan.speedMs) % length

\* a distance that does not wrap around the ring
directDistance(a, b, length) == Abs(a - b)

\* lines 244-247
wrapDistance(a, b, length) ==
    LET direct == Abs(a - b)
    IN Min(direct, length - direct)

\* lines 257-269: the cell idx of the scanline bar
ScanCell(idx, filled, scan, pulseCenter, barLength) ==
    LET ch == IF idx < filled THEN "#" ELSE "."
        dist == wrapDistance(idx, pulseCenter, barLength)
    IN IF dist > scan.pulseWidth \div 2
       THEN BASE_BAR_BG \o dim \o ch \o reset
       ELSE LET gradientIdx == Min(dist + scan.pulseWidth \div 2, Len(SCAN_GRADIENT) - 1)
                factor == SCAN_GRADIENT[gradientIdx + 1]
                bg == makeBg(scan.baseColor, factor)
                textColor == IF scan.freeze THEN bright ELSE reset
            IN bg \o textColor \o ch \o reset

RECURSIVE ScanCells(_, _, _, _, _)
ScanCells(idx, filled, scan, pulseCenter, barLength) ==
    IF idx >= barLength THEN ""
    ELSE ScanCell(idx, filled, scan, pulseCenter, barLength)
            \o ScanCells(idx + 1, filled, scan, pulseCenter, barLength)

\* lines 250-269: the array `colored`, one styled cell per bar position
ScanColored(beatsRemaining, nowMs) ==
    LET barLength == 32
        filled == Max(0, Min(barLength, RatFloor(beatsRemaining)))
        scan == getScanSettings(beatsRemaining)
        pulseCenter == getPulseCenter(barLength, scan, nowMs)
    IN [i \in 1..barLength |-> ScanCell(i - 1, filled, scan, pulseCenter, barLength)]

\* lines 249-273
buildScanlineBar(beatsRemaining, nowMs) ==
    LET barLength == 32
        filled == Max(0, Min(barLength, RatFloor(beatsRemaining)))
        scan == getScanSettings(beatsRemaining)
        pulseCenter == getPulseCenter(barLength, scan, nowMs)
    IN [bar |-> ScanCells(0, filled, scan, pulseCenter, barLength),
        labelColor |-> IF scan.freeze THEN red ELSE white]

\* lines 275-285
buildHelpPanel(width) ==
    LET separator == Repeat("-", width)
    IN <<dim \o separator \o reset,
         bright \o "<cyan>" \o "HELP" \o reset,
         dim \o separator \o reset,
         bright \o "h" \o reset \o ": toggle help   " \o bright \o "tab" \o reset
            \o ": categories   " \o bright \o "w/s" \o reset \o ": scroll",
         bright \o "r" \o reset \o ": refresh library   " \o bright \o "Ctrl+C" \o reset
            \o ": exit",
         dim \o "Scanline glow speeds up near the mix window and locks red inside the final 8 beats."
            \o reset>>

\* mutant: the three-row status bar whether or not the exit prompt is showing
buildStatusBarAlwaysThree(width, showWarning, ripple, rowIndex) ==
    LET statusWidth == Min(width, 120)
        effectiveWidth == Max(62, statusWidth - 2)
        separator == buildRippleBorderLine(effectiveWidth, rowIndex, ripple, TRUE)
        controls == "w/s: scroll | tab: category | r: refresh | h: help"
    IN <<separator,
         zshGreen \o "user@host" \o reset \o " | " \o white \o controls \o reset,
         zshBlue \o "~/cwd" \o "  " \o zshYellow \o "<main>" \o reset>>

\* lines 287-313; user, host and working directory come from the process environment
buildStatusBar(width, showWarning, ripple, rowIndex) ==
    LET statusWidth == Min(width, 120)
        effectiveWidth == Max(62, statusWidth - 2)
        separator == buildRippleBorderLine(effectiveWidth, rowIndex, ripple, TRUE)
        controls == "w/s: scroll | tab: category | r: refresh | h: help"
    IN IF showWarning
       THEN <<separator, " Press Ctrl-C again to exit ">>
       ELSE <<separator,
              zshGreen \o "user@host" \o reset \o " | " \o white \o controls \o reset,
              zshBlue \o "~/cwd" \o "  " \o zshYellow \o "<main>" \o reset>>

\* the transition types in alphabetical order
ShiftTypesAlphabetical ==
    <<"Energy Up", "Mood Switch", "Rhythmic/Dead-End Breaker", "Smooth">>

\* enum ShiftType, in declaration order (Object.values(ShiftType))
ShiftTypes == <<"Smooth", "Mood Switch", "Energy Up", "Rhythmic/Dead-End Breaker">>

\* process.stdout.columns || 80
TerminalWidthOf(columns) == IF columns = 0 THEN 80 ELSE columns

\* String.prototype.trim on the ends of str
RECURSIVE TrimEnd(_)
TrimEnd(str) ==
    IF Len(str) > 0 /\ SubSeq(str, Len(str), Len(str)) = " "
    THEN TrimEnd(SubSeq(str, 1, Len(str) - 1))
    ELSE str

RECURSIVE TrimStart(_)
TrimStart(str) ==
    IF Len(str) > 0 /\ SubSeq(str, 1, 1) = " "
    THEN TrimStart(SubSeq(str, 2, Len(str)))
    ELSE str

\* lines 388-394: the header box, the version line and a blank row
HeaderLines(effectiveWidth, ripple) ==
    LET title == spotifyGreen \o "# SpotifyDJ" \o reset \o " - Real-Time DJ Assistant"
        titleWidth == Len("# SpotifyDJ - Real-Time DJ Assistant")
    IN <<buildRippleBorderLine(effectiveWidth, 0, ripple, FALSE),
         buildRippleTitleLine(title, titleWidth, effectiveWidth, 1, ripple),
         buildRippleBorderLine(effectiveWidth, 2, ripple, TRUE),
         dim \o "Version: " \o VERSION \o reset,
         "">>

\* lines 396-401
NoticeLines(notices) ==
    IF Len(notices) > 0
    THEN [i \in 1..Len(notices) |-> yellow \o "!  " \o notices[i] \o reset] \o <<"">>
    ELSE <<>>

\* lines 439-471: the progress bar of the current track t
ProgressBar(t, effectiveWidth, nowMs) ==
    LET elapsed == nowMs - t.timestamp
        baseProgressMs == t.progress_ms
        additionalProgressMs == IF t.isPlaying THEN elapsed ELSE 0
        currentMs == Min(baseProgressMs + additionalProgressMs, t.duration_ms)
        barWidth == Max(40, Min(60, effectiveWidth \div 2))
        ratio == Rat(currentMs, t.duration_ms)
        percent == IF t.duration_ms <= 0 THEN Num(0)
                   ELSE IF RatLe(Num(1), ratio) THEN Num(1)
                   ELSE IF RatLe(ratio, Num(0)) THEN Num(0)
                   ELSE ratio
        filledLen == IF RatLe(Num(1), percent) THEN barWidth
                     ELSE IF RatLe(percent, Num(0)) THEN 0
                     ELSE Min(RatRound(RatMul(Num(barWidth), percent)), barWidth)
        emptyLen == barWidth - filledLen
    IN [currentMs |-> currentMs, barWidth |-> barWidth, percent |-> percent,
        filledLen |-> filledLen, emptyLen |-> emptyLen]

\* lines 476-497: the phrase section for the current track t
PhraseLines(t, phraseOpt, nowMs) ==
    IF phraseOpt = <<>> THEN <<>>
    ELSE LET info == phraseOpt[1]
         IN IF RatLt(Num(0), info.beatsRemaining)
            THEN LET scan == buildScanlineBar(info.beatsRemaining, nowMs)
                 IN <<bright \o "T  Phrase Matching" \o reset,
                      scan.bar,
                      scan.labelColor \o "Beats Rem: " \o ToFixed1(info.beatsRemaining)
                          \o " | Time: " \o ToFixed1(info.timeRemainingSeconds) \o "s" \o reset,
                      "">>
            ELSE IF Truthy(t.time_signature) /\ t.time_signature[1] # 4
                 THEN <<yellow \o "!  Non-4/4 time signature detected ("
                            \o ToString(t.time_signature[1]) \o "/4)" \o reset,
                        dim \o "Phrase counter disabled for non-4/4 tracks" \o reset,
                        "">>
                 ELSE <<>>

\* lines 403-498: the rows about the current track
TrackLines(trackOpt, phraseOpt, effectiveWidth, nowMs) ==
    IF trackOpt = <<>>
    THEN <<yellow \o "Waiting for playback..." \o reset>>
    ELSE LET t == trackOpt[1]
             isFlashOn == t.isPlaying /\ (nowMs \div 500) % 2 = 0
             recordIndicator == IF isFlashOn THEN spotifyGreen \o "o" \o reset
                                ELSE dim \o "o" \o reset
             rawInfo == t.track_name \o " - " \o t.artist
             maxInfoWidth == effectiveWidth - 10
             displayInfo ==
                 IF Len(rawInfo) > maxInfoWidth
                 THEN bright \o SubSeq(rawInfo, 1, maxInfoWidth - 1) \o "~" \o reset
                 ELSE bright \o t.track_name \o reset \o " - " \o bright \o t.artist \o reset
             bpmVal == ToFixed1(Num(t.tempo))
             camelVal == IF t.camelot_key # "" THEN t.camelot_key ELSE "-"
             coloredCamel == IF t.camelot_key # ""
                             THEN "<key " \o t.camelot_key \o ">" \o bright \o camelVal \o reset
                             ELSE camelVal
             detailsStr == bright \o "BPM:" \o reset \o " " \o bpmVal \o "  " \o dim \o "*"
                             \o reset \o "  " \o bright \o "Camelot:" \o reset \o " "
                             \o coloredCamel
             p == ProgressBar(t, effectiveWidth, nowMs)
             bar == Repeat("#", p.filledLen) \o Repeat("-", p.emptyLen)
         IN <<"@  " \o displayInfo \o " " \o recordIndicator,
              "    " \o detailsStr,
              "",
              "  " \o bar,
              "">>
            \o PhraseLines(t, phraseOpt, nowMs)

\* lines 500-516: the recommendations title, the tab strip and the rule under it
RECURSIVE TabStrip(_, _)
TabStrip(categories, selectedCategory) ==
    IF categories = <<>> THEN ""
    ELSE LET cat == Head(categories)
             tab == IF cat = selectedCategory
                    THEN bgBlue \o white \o " " \o cat \o " " \o reset
                    ELSE dim \o " " \o cat \o " " \o reset
         IN tab \o (IF Len(categories) > 1 THEN " " ELSE "")
                \o TabStrip(Tail(categories), selectedCategory)

TabLines(trackOpt, selectedCategory, effectiveWidth) ==
    LET currentBpm == IF trackOpt # <<>> THEN ToFixed1(Num(trackOpt[1].tempo)) ELSE "0.0"
    IN <<bright \o spotifyGreen \o "! Recommendations" \o reset \o " " \o dim
            \o "(Current: " \o currentBpm \o " BPM)" \o reset,
         TabStrip(<<"ALL">> \o ShiftTypes, selectedCategory),
         dim \o Repeat("-", effectiveWidth) \o reset>>

\* lines 604-649: the row of one recommended track
TrackRow(track, trackOpt, effectiveWidth) ==
    LET coloredKey == "<key " \o track.camelot_key \o ">" \o "[" \o track.camelot_key \o "]"
                        \o reset
        hasTempo == trackOpt # <<>> /\ trackOpt[1].tempo # 0
        bpmDiff == IF hasTempo
                   THEN RatMul(RatDiv(RatSub(track.bpm, Num(trackOpt[1].tempo)),
                                      Num(trackOpt[1].tempo)), Num(100))
                   ELSE Num(0)
        diffText == IF RatLe(Num(0), bpmDiff) THEN "+" \o ToFixed1(bpmDiff) \o "%"
                    ELSE ToFixed1(bpmDiff) \o "%"
        bpmColor == IF RatLt(Num(5), bpmDiff) \/ RatLt(bpmDiff, Num(0 - 5)) THEN yellow ELSE dim
        bpmDiffStr == IF hasTempo THEN " " \o bpmColor \o diffText \o reset ELSE ""
        bpmDiffPlain == IF hasTempo THEN " " \o diffText ELSE ""
        trackInfo == track.track_name \o " - " \o track.artist
        prefix == "  " \o coloredKey \o " "
        prefixWidth == Len("  [" \o track.camelot_key \o "] ")
        suffix == " (" \o ToFixed1(track.bpm) \o " BPM)" \o bpmDiffStr
        suffixWidth == Len(" (" \o ToFixed1(track.bpm) \o " BPM)" \o bpmDiffPlain)
        fullLine == prefix \o trackInfo \o suffix
        visualWidth == prefixWidth + Len(trackInfo) + suffixWidth
        availableForTrackInfo == effectiveWidth - prefixWidth - suffixWidth - 1
    IN IF visualWidth > effectiveWidth
       THEN IF availableForTrackInfo > 10
            THEN LET cut == SubSeq(trackInfo, 1, Min(Len(trackInfo), availableForTrackInfo))
                 IN prefix \o TrimStart(TrimEnd(cut)) \o "~" \o suffix
            ELSE SubSeq(fullLine, 1, Min(Len(fullLine), effectiveWidth - 1)) \o "~"
       ELSE fullLine

\* lines 591-602: the header row of the group of one type
CategoryHeader(type, selectedCategory) ==
    LET typeColor == IF type = "Rhythmic/Dead-End Breaker" THEN red
                     ELSE IF type = "Mood Switch" THEN magenta
                     ELSE IF type = "Energy Up" THEN yellow
                     ELSE IF type = "Smooth" THEN spotifyGreen
                     ELSE white
    IN IF selectedCategory = "ALL"
       THEN typeColor \o "v " \o type \o reset
       ELSE bright \o typeColor \o type \o reset

\* lines 588-651: the header and the rows of the types from position k of typesToRender on
RECURSIVE GroupLines(_, _, _, _, _, _)
GroupLines(k, typesToRender, filteredRecs, selectedCategory, trackOpt, effectiveWidth) ==
    IF k > Len(typesToRender) THEN <<>>
    ELSE LET type == typesToRender[k]
             tracks == IF selectedCategory = "ALL"
                       THEN SelectSeq(filteredRecs, LAMBDA r : r.shiftType = type)
                       ELSE filteredRecs
         IN (IF Len(tracks) > 0
             THEN <<CategoryHeader(type, selectedCategory)>> \o [i \in 1..Len(tracks) |->
                                    TrackRow(tracks[i], trackOpt, effectiveWidth)]
             ELSE <<>>)
            \o GroupLines(k + 1, typesToRender, filteredRecs, selectedCategory, trackOpt,
                          effectiveWidth)

\* lines 556-561: the placeholder rows
LibraryEmptyRow == dim \o "Library is empty." \o reset
LibraryTipRow ==
    dim \o "Tip: export your liked songs as Liked_Songs.csv (Exportify), drop it in this project, and run 'npm run refresh:library' or press r." \o reset
NoMatchesRow == dim \o "No harmonic matches found in library." \o reset

\* lines 552-652: the recommendation list before scrolling
DisplayLines(a, effectiveWidth) ==
    IF Len(a.recommendations) = 0
    THEN (IF a.totalTracksInLibrary = 0
          THEN <<LibraryEmptyRow, LibraryTipRow>>
          ELSE <<NoMatchesRow>>)
         \o (IF a.debugMessage # ""
             THEN <<red \o "DEBUG: " \o a.debugMessage \o reset>>
             ELSE <<>>)
    ELSE LET filteredRecs ==
                 IF a.selectedCategory # "ALL"
                 THEN SelectSeq(a.recommendations, LAMBDA r : r.shiftType = a.selectedCategory)
                 ELSE a.recommendations
             typesToRender == IF a.selectedCategory = "ALL" THEN ShiftTypes
                              ELSE <<a.selectedCategory>>
         IN GroupLines(1, typesToRender, filteredRecs, a.selectedCategory, a.currentTrack,
                       effectiveWidth)

\* the element of the singleton S; {F(v) : v \in {e}} evaluates e once, however often F
\* uses v
Only(S) == CHOOSE v \in S : TRUE

\* lines 388-516: the rows above the recommendation list
BoardTop(a, effectiveWidth, ripple, nowMs) ==
    HeaderLines(effectiveWidth, ripple)
        \o NoticeLines(a.notices)
        \o TrackLines(a.currentTrack, a.phraseInfo, effectiveWidth, nowMs)
        \o TabLines(a.currentTrack, a.selectedCategory, effectiveWidth)

\* line 684: the row shown when no recommendation row fits
TooSmallNotice == dim \o " (Terminal too small to show tracks) " \o reset

\* a clamp that forgets the upper end
clampScrollLowerOnly(scrollOffset, maxScroll) ==
    IF scrollOffset < 0 THEN 0 ELSE scrollOffset

\* lines 658-660: "Ensure scrollOffset is valid"
clampScroll(scrollOffset, maxScroll) ==
    LET nonNegative == IF scrollOffset < 0 THEN 0 ELSE scrollOffset
    IN IF nonNegative > maxScroll THEN maxScroll ELSE nonNegative

\* lines 518-695: the space left for the recommendation list, the scroll clamp, and the
\* rows down to the help panel; top and displayLines are the rows built before
BoardLayout(a, terminalHeight, effectiveWidth, top, displayLines) ==
    LET statusLineCount == IF a.showExitWarning THEN 2 ELSE 3
        helpLines == IF a.showHelp THEN buildHelpPanel(effectiveWidth) ELSE <<>>
        logLines == IF Len(a.logs) > 0
                    THEN <<"", dim \o Repeat("-", effectiveWidth) \o reset,
                           bright \o red \o "DEBUG LOGS:" \o reset>>
                         \o [i \in 1..Len(a.logs) |-> dim \o a.logs[i] \o reset]
                    ELSE <<>>
        reservedLines == (statusLineCount + 1)
                            + (IF a.showHelp THEN Len(helpLines) + 1 ELSE 0)
                            + Len(logLines)
        usedLinesTop == Len(top)
        availableForRecs == Max(0, terminalHeight - 1 - usedLinesTop - reservedLines)
        maxLines == availableForRecs
        totalLines == Len(displayLines)
        maxScroll == Max(0, totalLines - maxLines)
        scrollOffset == clampScroll(a.scrollOffset, maxScroll)
        visibleLines == SubSeq(displayLines, scrollOffset + 1,
                               Min(scrollOffset + maxLines, totalLines))
        tooSmall == IF totalLines > maxLines THEN <<>>
                    ELSE IF Len(visibleLines) = 0 /\ totalLines > 0
                         THEN <<TooSmallNotice>>
                         ELSE <<>>
    IN [body |-> top \o visibleLines \o tooSmall \o logLines
                     \o (IF a.showHelp THEN <<"">> \o helpLines ELSE <<>>),
        clampedOffset |-> scrollOffset,
        maxScroll |-> Max(0, totalLines - maxLines),
        usedLinesTop |-> usedLinesTop,
        reservedLines |-> reservedLines,
        availableForRecs |-> availableForRecs,
        displayLines |-> displayLines,
        visibleLines |-> visibleLines]

\* lines 697-710: the blank rows down to the status bar, the status bar, and the value
\* returned; layout is BoardLayout's result
BoardFrame(a, terminalWidth, terminalHeight, ripple, layout) ==
    LET statusLineCount == IF a.showExitWarning THEN 2 ELSE 3
        statusStartRow == Max(terminalHeight - statusLineCount, Len(layout.body))
        statusLines == buildStatusBar(terminalWidth, a.showExitWarning, ripple, statusStartRow)
        padding == [i \in 1..(terminalHeight - statusLineCount - Len(layout.body)) |-> ""]
    IN [lines |-> layout.body \o padding \o statusLines,
        clampedOffset |-> layout.clampedOffset,
        maxScroll |-> layout.maxScroll,
        usedLinesTop |-> layout.usedLinesTop,
        reservedLines |-> layout.reservedLines,
        availableForRecs |-> layout.availableForRecs,
        displayLines |-> layout.displayLines,
        visibleLines |-> layout.visibleLines]

\* lines 361-711: renderTrainBoard on the arguments a, up to its call of writeFrame:
\* the rows handed to writeFrame, the value returned, and the layout's bookkeeping
renderTrainBoard(a, terminalWidth, terminalHeight, nowMs) ==
    LET uiWidth == Min(terminalWidth, 120)
        effectiveWidth == Max(62, uiWidth - 2)
        frameWidth == effectiveWidth + 2
    IN Only({Only({Only({BoardFrame(a, terminalWidth, terminalHeight, ripple, layout) :
                         layout \in {BoardLayout(a, terminalHeight, effectiveWidth, top,
                                                 displayLines)}}) :
                   top \in {BoardTop(a, effectiveWidth, ripple, nowMs)},
                   displayLines \in {DisplayLines(a, effectiveWidth)}}) :
             ripple \in {buildRippleState(frameWidth, terminalHeight, a.currentTrack # <<>>,
                                          nowMs)}})

\* buildSampleTrack() of the demo driver; its timestamp is the clock at construction
SampleTrack ==
    [track_name |-> "Asibe Happy", artist |-> "Kabza De Small, DJ Maphorisa, Ami Faku",
     camelot_key |-> "9A", progress_ms |-> 142000, duration_ms |-> 325000,
     timestamp |-> ClockStepMs, isPlaying |-> TRUE, tempo |-> 113, time_signature |-> <<4>>]

\* a paused track in 3/4
WaltzTrack ==
    [SampleTrack EXCEPT !.track_name = "Tralala (feat. JayO)", !.artist = "Aya Nakamura;JayO",
                        !.camelot_key = "8A", !.isPlaying = FALSE, !.tempo = 92,
                        !.time_signature = <<3>>]

\* a track without audio analysis, key or duration, whose title does not fit the board
UnanalysedTrack ==
    [SampleTrack EXCEPT !.track_name = "i can't feel my face (feat. Nechie) - extended club mix",
                        !.artist = "Gunna;Nechie, Kabza De Small, DJ Maphorisa, Ami Faku",
                        !.camelot_key = "", !.duration_ms = 0, !.tempo = 0,
                        !.time_signature = <<>>]

\* an optional track: <<>> is null
Tracks == {<<>>, <<SampleTrack>>, <<WaltzTrack>>, <<UnanalysedTrack>>}

\* buildSampleRecommendations() of the demo driver
SampleRecommendations ==
    <<[track_name |-> "MISSION", artist |-> "SoFaygo", camelot_key |-> "10A",
       bpm |-> Rat(1569, 10), shiftType |-> "Energy Up"],
      [track_name |-> "2AM", artist |-> "SZA", camelot_key |-> "8A",
       bpm |-> Num(84), shiftType |-> "Mood Switch"],
      [track_name |-> "Designer Thangs", artist |-> "tana", camelot_key |-> "10A",
       bpm |-> Num(180), shiftType |-> "Energy Up"],
      [track_name |-> "Tralala (feat. JayO)", artist |-> "Aya Nakamura;JayO",
       camelot_key |-> "9A", bpm |-> Num(92), shiftType |-> "Smooth"],
      [track_name |-> "BACK IN THE MIX", artist |-> "SoFaygo", camelot_key |-> "9A",
       bpm |-> Num(134), shiftType |-> "Energy Up"],
      [track_name |-> "shiloh type beat", artist |-> "Jessy Blakemore", camelot_key |-> "8A",
       bpm |-> Rat(1216, 10), shiftType |-> "Smooth"],
      [track_name |-> "I Want Her Too", artist |-> "Artie J", camelot_key |-> "10A",
       bpm |-> Num(90), shiftType |-> "Mood Switch"],
      [track_name |-> "Bad News Benji", artist |-> "Benji Blue Bills", camelot_key |-> "9A",
       bpm |-> Num(166), shiftType |-> "Energy Up"],
      [track_name |-> "My Will", artist |-> "Leon Thomas", camelot_key |-> "8A",
       bpm |-> Rat(1401, 10), shiftType |-> "Rhythmic/Dead-End Breaker"],
      [track_name |-> "i can't feel my face (feat. Nechie)", artist |-> "Gunna;Nechie",
       camelot_key |-> "8A", bpm |-> Num(127), shiftType |-> "Smooth"]>>

\* the UI state the demo driver passes along
DemoUi ==
    [showExitWarning |-> FALSE, debugMessage |-> "", logs |-> <<>>, selectedCategory |-> "ALL",
     scrollOffset |-> 0, showHelp |-> FALSE,
     notices |-> <<"Demo mode - static snapshot that mirrors spotifydj.txt">>,
     totalTracksInLibrary |-> 10]

\* the UI state of a session with an empty library: exit warning, debug output, help
\* panel, one category selected and the list scrolled
EmptyLibraryUi ==
    [showExitWarning |-> TRUE, debugMessage |-> "no candidates", logs |-> <<"[poll] 200">>,
     selectedCategory |-> "Energy Up", scrollOffset |-> 3, showHelp |-> TRUE,
     notices |-> <<>>, totalTracksInLibrary |-> 0]

\* <<recommendations, UI state>> as callers pass them
Scenes == {<<SampleRecommendations, DemoUi>>, <<<<>>, EmptyLibraryUi>>}

\* the arguments of renderTrainBoard but for phraseInfo
BoardArgsOf(trackOpt, recs, ui) ==
    [currentTrack |-> trackOpt, recommendations |-> recs,
     showExitWarning |-> ui.showExitWarning, debugMessage |-> ui.debugMessage,
     logs |-> ui.logs, selectedCategory |-> ui.selectedCategory,
     scrollOffset |-> ui.scrollOffset, showHelp |-> ui.showHelp, notices |-> ui.notices,
     totalTracksInLibrary |-> ui.totalTracksInLibrary]

BoardInputs == {BoardArgsOf(t, scene[1], scene[2]) : t \in Tracks, scene \in Scenes}

IdleBoardArgs == BoardArgsOf(<<>>, <<>>, DemoUi)

\* renderTrainBoard has not been called yet
NoBoard ==
    [op |-> "none", args |-> <<>>, columns |-> 0, rows |-> 0, now |-> 0,
     clampedOffset |-> 0, maxScroll |-> 0,
     layout |-> [usedLinesTop |-> 0, reservedLines |-> 0, availableForRecs |-> 0,
                 displayLines |-> <<>>, visibleLines |-> <<>>],
     repeat |-> FALSE, fedBack |-> FALSE, before |-> <<0, 0>>]

\* process.stdout.write calls joined: the ops of all chunks in order
RECURSIVE Flatten(_)
Flatten(chunks) == IF chunks = <<>> THEN <<>> ELSE Head(chunks) \o Flatten(Tail(chunks))

\* no drawing helper has been called on its own
NoProbe == [op |-> "none"]

\* the terminal after the output writes: an op "row" moves the cursor to column 1 of its
\* row (the bottom row when the terminal is shorter), prints its text and clears the
\* rest of the row; the cursor-home op prints nothing.  Rows are taken to fit the width
Paint(scr, writes) ==
    IF scr = <<>> THEN <<>>
    ELSE LET ops == Flatten(writes)
             hits(i) == {k \in DOMAIN ops : ops[k].op = "row" /\ Min(ops[k].row, Len(scr)) = i}
             last(S) == CHOOSE k \in S : \A j \in S : j <= k
         IN [i \in 1..Len(scr) |-> IF hits(i) = {} THEN scr[i] ELSE ops[last(hits(i))].text]

\* no renderer operation yet.  A call record holds the operation, the frame passed
\* (lines), the height sampled, the baseline found (prev), the caller's array as the
\* operation left it (after), and whether the operation before it was a reset (fresh)
NoCall == [op |-> "none", lines |-> <<>>, height |-> 0, prev |-> <<>>, after |-> <<>>,
           fresh |-> FALSE]

\* the state after new TerminalRenderer() and new PhraseCounter()
Init ==
    /\ now = ClockStepMs
    /\ stdoutRows \in 0..MaxRows
    /\ previousFrame = <<>>
    /\ shared = FALSE
    /\ lines = <<>>
    /\ written = <<>>
    /\ writtenBefore = <<>>
    /\ call = NoCall
    /\ hist = <<>>
    /\ calcArgs = [bpm |-> 0, progressMs |-> 0, timestamp |-> 0, timeSignature |-> <<>>,
                   isPlaying |-> TRUE, now |-> ClockStepMs]
    /\ phraseInfo = PhraseDefault
    /\ calcDone = FALSE
    /\ stdoutColumns = 0
    /\ boardArgs = IdleBoardArgs
    /\ board = NoBoard
    /\ screen = <<>>
    /\ probe = NoProbe

\* hist after the call e: the last two writeFrame calls, and the call before them as
\* well when e passes the same frame as that call did (a round trip A, B, A)
Remember(e) ==
    LET n == Len(hist)
    IN IF n = 0 THEN <<e>>
       ELSE IF n >= 2 /\ hist[n - 1].lines = e.lines
            THEN <<hist[n - 1], hist[n], e>>
            ELSE <<hist[n], e>>

\* renderer.writeFrame(rows), but for the bookkeeping of hist
WriteFrameCall(rows) ==
    LET terminalHeight == TerminalHeightOf(stdoutRows)
        r == writeFrame(rows, previousFrame, terminalHeight)
    IN  /\ written' = r.writes
        /\ previousFrame' = r.previousFrame
        /\ shared' = r.shared
        /\ lines' = r.lines
        /\ call' = [op |-> "writeFrame", lines |-> rows, height |-> terminalHeight,
                    prev |-> previousFrame, after |-> r.lines,
                    fresh |-> (call.op = "reset")]
        /\ screen' = Paint(screen, r.writes)
        /\ UNCHANGED <<now, stdoutRows, stdoutColumns, probe>>

\* renderer.writeFrame(rows)
WriteFrame(rows) ==
    /\ WriteFrameCall(rows)
    /\ UNCHANGED <<hist, writtenBefore, boardArgs, board>>
    /\ UNCHANGED phraseVars

\* renderer.writeFrame(rows), remembered in hist
WriteFrameTracked(rows) ==
    /\ WriteFrameCall(rows)
    /\ hist' = Remember([lines |-> rows, post |-> previousFrame'])
    /\ writtenBefore' = IF Len(hist') = 3 THEN written ELSE <<>>
    /\ UNCHANGED <<boardArgs, board>>
    /\ UNCHANGED phraseVars

\* renderer.resetFrameCache()
ResetFrameCache ==
    /\ previousFrame' = <<>>
    /\ shared' = FALSE
    /\ written' = <<>>
    /\ call' = [op |-> "reset", lines |-> <<>>, height |-> 0, prev |-> previousFrame,
                after |-> <<>>, fresh |-> FALSE]
    /\ hist' = <<>>
    /\ writtenBefore' = <<>>
    /\ UNCHANGED <<now, stdoutRows, lines>>
    /\ UNCHANGED phraseVars
    /\ UNCHANGED boardVars
    /\ UNCHANGED <<screen, probe>>

\* the terminal is resized (or stdout stops being a TTY): process.stdout.rows changes
Resize(rows) ==
    /\ rows # stdoutRows
    /\ stdoutRows' = rows
    /\ hist' = <<>>
    /\ writtenBefore' = <<>>
    /\ UNCHANGED <<now, previousFrame, shared, lines, written, call>>
    /\ UNCHANGED phraseVars
    /\ UNCHANGED boardVars
    /\ UNCHANGED <<screen, probe>>

\* the caller empties the array it passed to writeFrame (lines.length = 0)
CallerClearsLines ==
    /\ lines # <<>>
    /\ lines' = <<>>
    /\ previousFrame' = IF shared THEN <<>> ELSE previousFrame
    /\ UNCHANGED <<now, stdoutRows, shared, written, writtenBefore, call, hist>>
    /\ UNCHANGED phraseVars
    /\ UNCHANGED boardVars
    /\ UNCHANGED <<screen, probe>>

\* the wall clock advances, up to its value number ticks
TickUpTo(ticks) ==
    /\ now < ticks * ClockStepMs
    /\ now' = now + ClockStepMs
    /\ UNCHANGED rendererVars
    /\ UNCHANGED phraseVars
    /\ UNCHANGED boardVars
    /\ UNCHANGED <<screen, probe>>

Tick == TickUpTo(MaxTicks)

\* phraseCounter.calculate(bpm, progressMs, timestamp, timeSignature, isPlaying) on the
\* arguments held in calcArgs, at the current clock value
Calculate ==
    /\ phraseInfo' = calculate(calcArgs.bpm, calcArgs.progressMs, calcArgs.timestamp,
                               calcArgs.timeSignature, calcArgs.isPlaying, now)
    /\ calcArgs' = [calcArgs EXCEPT !.now = now]
    /\ calcDone' = TRUE
    /\ UNCHANGED now
    /\ UNCHANGED rendererVars
    /\ UNCHANGED boardVars
    /\ UNCHANGED <<screen, probe>>

Next ==
    \/ \E rows \in Frames : WriteFrame(rows)
    \/ ResetFrameCache
    \/ \E rows \in 0..MaxRows : Resize(rows)
    \/ CallerClearsLines

\* the frame-diffing renderer driven by an arbitrary caller
Spec == Init /\ [][Next]_vars

NextRoundTrip ==
    \/ \E rows \in Frames : WriteFrameTracked(rows)
    \/ ResetFrameCache
    \/ \E rows \in 0..MaxRows : Resize(rows)

\* the renderer with its last three writeFrame calls remembered
SpecRoundTrip == Init /\ [][NextRoundTrip]_vars

\* the arguments of calculate drawn from the bounded input sets
InitPhrase ==
    /\ now = ClockStepMs
    /\ stdoutRows = 0
    /\ previousFrame = <<>>
    /\ shared = FALSE
    /\ lines = <<>>
    /\ written = <<>>
    /\ writtenBefore = <<>>
    /\ call = NoCall
    /\ hist = <<>>
    /\ calcArgs \in [bpm : BpmValues, progressMs : ProgressValues,
                     timestamp : TimestampValues, timeSignature : SignatureValues,
                     isPlaying : BOOLEAN, now : {ClockStepMs}]
    /\ phraseInfo = PhraseDefault
    /\ calcDone = FALSE
    /\ stdoutColumns = 0
    /\ boardArgs = IdleBoardArgs
    /\ board = NoBoard
    /\ screen = <<>>
    /\ probe = NoProbe

NextPhrase ==
    \/ Tick
    \/ Calculate

\* PhraseCounter.calculate applied to every input of the bounded sets at every clock value
SpecPhrase == InitPhrase /\ [][NextPhrase]_vars

\* renderer.renderTrainBoard(currentTrack, recommendations, phraseOpt, ...) with the other
\* arguments as boardArgs holds them: the layout, then writeFrame on its rows.  repeat
\* tells that the renderer's previous operation was the same call, on the same
\* arguments, at the same clock value and terminal size; fedBack that it was the same
\* call but for scrollOffset, which now is the clampedOffset that call returned, before
\* being the pair that call returned
RenderTrainBoardCall(phraseOpt) ==
    \E a \in {[currentTrack |-> boardArgs.currentTrack,
               recommendations |-> boardArgs.recommendations,
               phraseInfo |-> phraseOpt,
               showExitWarning |-> boardArgs.showExitWarning,
               debugMessage |-> boardArgs.debugMessage,
               logs |-> boardArgs.logs,
               selectedCategory |-> boardArgs.selectedCategory,
               scrollOffset |-> boardArgs.scrollOffset,
               showHelp |-> boardArgs.showHelp,
               notices |-> boardArgs.notices,
               totalTracksInLibrary |-> boardArgs.totalTracksInLibrary]} :
        \E r \in {renderTrainBoard(a, TerminalWidthOf(stdoutColumns),
                                   TerminalHeightOf(stdoutRows), now)} :
            /\ WriteFrameCall(r.lines)
            /\ board' = [op |-> "renderTrainBoard", args |-> a, columns |-> stdoutColumns,
                         rows |-> stdoutRows, now |-> now,
                         clampedOffset |-> r.clampedOffset, maxScroll |-> r.maxScroll,
                         layout |-> [usedLinesTop |-> r.usedLinesTop,
                                     reservedLines |-> r.reservedLines,
                                     availableForRecs |-> r.availableForRecs,
                                     displayLines |-> r.displayLines,
                                     visibleLines |-> r.visibleLines],
                         repeat |-> /\ board.op = "renderTrainBoard"
                                    /\ call.op = "writeFrame"
                                    /\ board.args = a
                                    /\ board.columns = stdoutColumns
                                    /\ board.rows = stdoutRows
                                    /\ board.now = now,
                         fedBack |-> /\ board.op = "renderTrainBoard"
                                     /\ call.op = "writeFrame"
                                     /\ a = [board.args EXCEPT
                                                !.scrollOffset = board.clampedOffset]
                                     /\ board.columns = stdoutColumns
                                     /\ board.rows = stdoutRows,
                         before |-> <<board.clampedOffset, board.maxScroll>>]
            /\ UNCHANGED <<hist, writtenBefore, boardArgs>>

\* one iteration of runBoardDemo's loop (ts_sandbox.ts): phraseCounter.calculate on the
\* current track, then renderTrainBoard with its result
BoardLoopStep ==
    /\ boardArgs.currentTrack # <<>>
    /\ LET t == boardArgs.currentTrack[1]
       IN \E info \in {calculate(t.tempo, t.progress_ms, t.timestamp, t.time_signature,
                                 t.isPlaying, now)} :
            /\ phraseInfo' = info
            /\ calcArgs' = [bpm |-> t.tempo, progressMs |-> t.progress_ms,
                            timestamp |-> t.timestamp, timeSignature |-> t.time_signature,
                            isPlaying |-> t.isPlaying, now |-> now]
            /\ calcDone' = TRUE
            /\ RenderTrainBoardCall(<<info>>)

\* renderTrainBoard called with phraseInfo = null, as runFlipDemo does
RenderTrainBoard ==
    /\ RenderTrainBoardCall(<<>>)
    /\ UNCHANGED phraseVars

\* the terminal the board is drawn on is resized
ResizeBoard(columns, rows) ==
    /\ <<columns, rows>> # <<stdoutColumns, stdoutRows>>
    /\ stdoutColumns' = columns
    /\ stdoutRows' = rows
    /\ UNCHANGED <<now, previousFrame, shared, lines, written, writtenBefore, call, hist>>
    /\ UNCHANGED phraseVars
    /\ UNCHANGED <<boardArgs, board, screen, probe>>

\* the wall clock advances while the board is on screen
BoardTick == TickUpTo(MaxBoardTicks)

\* the renderer constructed, the caller's arguments drawn from BoardInputs
InitBoard ==
    /\ now = ClockStepMs
    /\ \E size \in BoardSizes : stdoutColumns = size[1] /\ stdoutRows = size[2]
    /\ previousFrame = <<>>
    /\ shared = FALSE
    /\ lines = <<>>
    /\ written = <<>>
    /\ writtenBefore = <<>>
    /\ call = NoCall
    /\ hist = <<>>
    /\ calcArgs = [bpm |-> 0, progressMs |-> 0, timestamp |-> 0, timeSignature |-> <<>>,
                   isPlaying |-> TRUE, now |-> ClockStepMs]
    /\ phraseInfo = PhraseDefault
    /\ calcDone = FALSE
    /\ boardArgs \in BoardInputs
    /\ board = NoBoard
    /\ screen = <<>>
    /\ probe = NoProbe

NextBoard ==
    \/ BoardLoopStep
    \/ RenderTrainBoard
    \/ \E size \in BoardSizes : ResizeBoard(size[1], size[2])
    \/ BoardTick

\* the dashboard: renderTrainBoard called over and over while the clock advances
SpecBoard == InitBoard /\ [][NextBoard]_vars

\* the caller's input handler keeps the clampedOffset renderTrainBoard returned as its
\* scroll position for the next call
PersistOffset ==
    /\ board.op = "renderTrainBoard"
    /\ boardArgs.scrollOffset # board.clampedOffset
    /\ boardArgs' = [boardArgs EXCEPT !.scrollOffset = board.clampedOffset]
    /\ UNCHANGED <<now, stdoutRows, stdoutColumns, board, screen, probe>>
    /\ UNCHANGED <<previousFrame, shared, lines, written, writtenBefore, call, hist>>
    /\ UNCHANGED phraseVars

\* n recommendations: the demo driver's ten, over and over
ManyRecommendations(n) == [i \in 1..n |-> SampleRecommendations[((i - 1) % 10) + 1]]

ScrollOffsets == ((0 - 2)..MaxOffset) \cup {44, 60}
ScrollRows == {0, 10, 40}

\* the UI state of a session with the help panel and the debug logs on screen
HelpAndLogsUi ==
    [DemoUi EXCEPT !.showHelp = TRUE, !.logs = <<"[poll] 200", "[match] 50 candidates">>]

ScrollInputs ==
    {[BoardArgsOf(<<SampleTrack>>, recs, ui) EXCEPT !.scrollOffset = offset] :
        recs \in {SampleRecommendations, ManyRecommendations(50)},
        ui \in {DemoUi, HelpAndLogsUi},
        offset \in ScrollOffsets}

\* the renderer constructed; a long list, a scroll position and a terminal height drawn
InitScroll ==
    /\ now = ClockStepMs
    /\ stdoutRows \in ScrollRows
    /\ previousFrame = <<>>
    /\ shared = FALSE
    /\ lines = <<>>
    /\ written = <<>>
    /\ writtenBefore = <<>>
    /\ call = NoCall
    /\ hist = <<>>
    /\ calcArgs = [bpm |-> 0, progressMs |-> 0, timestamp |-> 0, timeSignature |-> <<>>,
                   isPlaying |-> TRUE, now |-> ClockStepMs]
    /\ phraseInfo = PhraseDefault
    /\ calcDone = FALSE
    /\ stdoutColumns = 0
    /\ boardArgs \in ScrollInputs
    /\ board = NoBoard
    /\ screen = <<>>
    /\ probe = NoProbe

NextScroll ==
    \/ BoardLoopStep
    \/ RenderTrainBoard
    \/ PersistOffset

\* the dashboard with a scrolled recommendation list, the clock standing still
SpecScroll == InitScroll /\ [][NextScroll]_vars

\* recommendation lists: none, the demo driver's ten, its first three (two types), and
\* its ninth alone (one type)
ListRecommendations ==
    {<<>>, SampleRecommendations, SubSeq(SampleRecommendations, 1, 3),
     SubSeq(SampleRecommendations, 9, 9)}

ListCategories == {"ALL"} \cup {ShiftTypes[k] : k \in DOMAIN ShiftTypes}

\* <<totalTracksInLibrary, debugMessage>>
LibraryStates == {<<0, "">>, <<0, "no candidates">>, <<10, "">>}

ListInputs ==
    {[BoardArgsOf(t, recs, DemoUi) EXCEPT !.selectedCategory = category,
                                          !.totalTracksInLibrary = library[1],
                                          !.debugMessage = library[2]] :
        t \in {<<>>, <<SampleTrack>>},
        recs \in ListRecommendations,
        category \in ListCategories,
        library \in LibraryStates}

\* the renderer constructed on a terminal of 40 rows; recommendations, category and
\* library size drawn
InitList ==
    /\ now = ClockStepMs
    /\ stdoutRows = 40
    /\ previousFrame = <<>>
    /\ shared = FALSE
    /\ lines = <<>>
    /\ written = <<>>
    /\ writtenBefore = <<>>
    /\ call = NoCall
    /\ hist = <<>>
    /\ calcArgs = [bpm |-> 0, progressMs |-> 0, timestamp |-> 0, timeSignature |-> <<>>,
                   isPlaying |-> TRUE, now |-> ClockStepMs]
    /\ phraseInfo = PhraseDefault
    /\ calcDone = FALSE
    /\ stdoutColumns = 0
    /\ boardArgs \in ListInputs
    /\ board = NoBoard
    /\ screen = <<>>
    /\ probe = NoProbe

NextList ==
    \/ BoardLoopStep
    \/ RenderTrainBoard

\* the dashboard drawn for every recommendation list and category, the clock standing still
SpecList == InitList /\ [][NextList]_vars

\* lines 350-357: the rows of the too-narrow screen
NarrowLines(width) ==
    <<"",
      yellow \o "!  Terminal too narrow!" \o reset,
      "Minimum width: 80 characters",
      "Current width: " \o ToString(width) \o " characters",
      "",
      "Please resize your terminal window.">>

\* renderer.renderNarrowWarning(width): resetFrameCache(), then writeFrame on the six rows
RenderNarrowWarning(width) ==
    LET terminalHeight == TerminalHeightOf(stdoutRows)
        r == writeFrame(NarrowLines(width), <<>>, terminalHeight)
    IN  /\ written' = r.writes
        /\ previousFrame' = r.previousFrame
        /\ shared' = r.shared
        /\ lines' = r.lines
        /\ call' = [op |-> "renderNarrowWarning", lines |-> NarrowLines(width),
                    height |-> terminalHeight, prev |-> <<>>, after |-> r.lines,
                    fresh |-> TRUE]
        /\ screen' = Paint(screen, r.writes)
        /\ hist' = <<>>
        /\ writtenBefore' = <<>>
        /\ UNCHANGED <<now, stdoutRows, stdoutColumns, probe, boardArgs, board>>
        /\ UNCHANGED phraseVars

\* widths below the minimum of 80 columns
NarrowWidths == {40, 79}

\* a terminal of 24 blank rows, the renderer constructed
InitNarrow ==
    /\ now = ClockStepMs
    /\ stdoutRows = 0
    /\ stdoutColumns = 0
    /\ previousFrame = <<>>
    /\ shared = FALSE
    /\ lines = <<>>
    /\ written = <<>>
    /\ writtenBefore = <<>>
    /\ call = NoCall
    /\ hist = <<>>
    /\ calcArgs = [bpm |-> 0, progressMs |-> 0, timestamp |-> 0, timeSignature |-> <<>>,
                   isPlaying |-> TRUE, now |-> ClockStepMs]
    /\ phraseInfo = PhraseDefault
    /\ calcDone = FALSE
    /\ boardArgs \in BoardInputs
    /\ board = NoBoard
    /\ screen = [i \in 1..DefaultRows |-> ""]
    /\ probe = NoProbe

NextNarrow ==
    \/ BoardLoopStep
    \/ RenderTrainBoard
    \/ \E width \in NarrowWidths : RenderNarrowWarning(width)
    \/ BoardTick

\* dashboard frames and too-narrow screens drawn by one renderer on one terminal
SpecNarrow == InitNarrow /\ [][NextNarrow]_vars

\* the clock of the drawing helpers advances in steps of DrawStepMs, MaxDrawTicks times
DrawStepMs == 50
MaxDrawTicks == 40

\* <<frameWidth, frameHeight>> of a ripple: a small frame and the 80x24 dashboard's
RippleFrames == {<<2, 0>>, <<64, 24>>}

RippleRows == {0, 2}
RippleCols == 0..7

\* beatsRemaining values on both sides of the tier limits 8, 16 and 32
BeatValues == {Num(0), Num(8), Rat(17, 2), Num(16), Rat(33, 2), Num(32), Num(40)}

\* colorizeFrameChar on the border cell (row, col) with the ripple state of the given frame
ColorizeFrameChar(frame, isActive, row, col) ==
    /\ probe' = [op |-> "colorizeFrameChar",
                 args |-> [row |-> row, col |-> col,
                           ripple |-> buildRippleState(frame[1], frame[2], isActive, now)],
                 result |-> colorizeFrameChar("=", row, col,
                                buildRippleState(frame[1], frame[2], isActive, now), TRUE)]
    /\ UNCHANGED <<now, screen>>
    /\ UNCHANGED rendererVars
    /\ UNCHANGED phraseVars
    /\ UNCHANGED boardVars

\* buildScanlineBar(beatsRemaining) at the current clock value
BuildScanlineBar(beatsRemaining) ==
    /\ probe' = [op |-> "buildScanlineBar",
                 args |-> [beatsRemaining |-> beatsRemaining, now |-> now],
                 result |-> [bar |-> buildScanlineBar(beatsRemaining, now).bar,
                             colored |-> ScanColored(beatsRemaining, now)]]
    /\ UNCHANGED <<now, screen>>
    /\ UNCHANGED rendererVars
    /\ UNCHANGED phraseVars
    /\ UNCHANGED boardVars

\* Date.now() moves on between two drawings; the last drawing is forgotten
DrawTick ==
    /\ now < MaxDrawTicks * DrawStepMs
    /\ now' = now + DrawStepMs
    /\ probe' = NoProbe
    /\ UNCHANGED rendererVars
    /\ UNCHANGED phraseVars
    /\ UNCHANGED boardVars
    /\ UNCHANGED screen

InitDraw ==
    /\ now = DrawStepMs
    /\ stdoutRows = 0
    /\ previousFrame = <<>>
    /\ shared = FALSE
    /\ lines = <<>>
    /\ written = <<>>
    /\ writtenBefore = <<>>
    /\ call = NoCall
    /\ hist = <<>>
    /\ calcArgs = [bpm |-> 0, progressMs |-> 0, timestamp |-> 0, timeSignature |-> <<>>,
                   isPlaying |-> TRUE, now |-> ClockStepMs]
    /\ phraseInfo = PhraseDefault
    /\ calcDone = FALSE
    /\ stdoutColumns = 0
    /\ boardArgs = IdleBoardArgs
    /\ board = NoBoard
    /\ screen = <<>>
    /\ probe = NoProbe

NextDraw ==
    \/ \E frame \in RippleFrames : \E isActive \in BOOLEAN :
         \E row \in RippleRows : \E col \in RippleCols :
            ColorizeFrameChar(frame, isActive, row, col)
    \/ \E beatsRemaining \in BeatValues : BuildScanlineBar(beatsRemaining)
    \/ DrawTick

\* the border and scanline helpers applied while the clock advances
SpecDraw == InitDraw /\ [][NextDraw]_vars

\* a cleared terminal of the height the renderer samples, the renderer just constructed
InitRepaint ==
    /\ now = ClockStepMs
    /\ stdoutRows \in 0..MaxRows
    /\ previousFrame = <<>>
    /\ shared = FALSE
    /\ lines = <<>>
    /\ written = <<>>
    /\ writtenBefore = <<>>
    /\ call = NoCall
    /\ hist = <<>>
    /\ calcArgs = [bpm |-> 0, progressMs |-> 0, timestamp |-> 0, timeSignature |-> <<>>,
                   isPlaying |-> TRUE, now |-> ClockStepMs]
    /\ phraseInfo = PhraseDefault
    /\ calcDone = FALSE
    /\ stdoutColumns = 0
    /\ boardArgs = IdleBoardArgs
    /\ board = NoBoard
    /\ screen = [i \in 1..TerminalHeightOf(stdoutRows) |-> ""]
    /\ probe = NoProbe

NextRepaint ==
    \/ \E rows \in Frames : WriteFrame(rows)
    \/ CallerClearsLines

\* frames written one after another on a terminal whose height stays as it is
SpecRepaint == InitRepaint /\ [][NextRepaint]_vars

\* the sample track with every tempo and time signature the audio analysis can report: no
\* tempo yet (0), a negative one, 60 and 120 BPM; no signature, 0, 3/4, 4/4 and 5/4
SignatureTracks ==
    {[SampleTrack EXCEPT !.tempo = tempo, !.time_signature = signature,
                         !.isPlaying = playing] :
        tempo \in {0 - 120, 0, 60, 120},
        signature \in SignatureValues,
        playing \in BOOLEAN}

\* the demo driver's loop on each of these tracks, on the default 80x24 terminal
InitSignature ==
    /\ now = ClockStepMs
    /\ stdoutRows = 0
    /\ stdoutColumns = 0
    /\ previousFrame = <<>>
    /\ shared = FALSE
    /\ lines = <<>>
    /\ written = <<>>
    /\ writtenBefore = <<>>
    /\ call = NoCall
    /\ hist = <<>>
    /\ calcArgs = [bpm |-> 0, progressMs |-> 0, timestamp |-> 0, timeSignature |-> <<>>,
                   isPlaying |-> TRUE, now |-> ClockStepMs]
    /\ phraseInfo = PhraseDefault
    /\ calcDone = FALSE
    /\ \E t \in SignatureTracks : boardArgs = BoardArgsOf(<<t>>, SampleRecommendations, DemoUi)
    /\ board = NoBoard
    /\ screen = <<>>
    /\ probe = NoProbe

NextSignature ==
    \/ BoardLoopStep
    \/ BoardTick

\* calculate, then renderTrainBoard on its result, for every tempo and time signature
SpecSignature == InitSignature /\ [][NextSignature]_vars

\* process.stdout.rows of the terminals the layout budget is checked on: too short for the
\* panels (12), the default's height (24), and heights with room for every panel
BudgetRows == {12, 24, 36, 40}

\* every combination of track, recommendation list and panels on each height
BudgetInputs ==
    {BoardArgsOf(t, recs, ui) :
        t \in {<<>>, <<SampleTrack>>},
        recs \in {<<>>, SampleRecommendations, ManyRecommendations(50)},
        ui \in {DemoUi, HelpAndLogsUi, EmptyLibraryUi}}

InitBudget ==
    /\ now = ClockStepMs
    /\ stdoutRows \in BudgetRows
    /\ stdoutColumns = 0
    /\ previousFrame = <<>>
    /\ shared = FALSE
    /\ lines = <<>>
    /\ written = <<>>
    /\ writtenBefore = <<>>
    /\ call = NoCall
    /\ hist = <<>>
    /\ calcArgs = [bpm |-> 0, progressMs |-> 0, timestamp |-> 0, timeSignature |-> <<>>,
                   isPlaying |-> TRUE, now |-> ClockStepMs]
    /\ phraseInfo = PhraseDefault
    /\ calcDone = FALSE
    /\ boardArgs \in BudgetInputs
    /\ board = NoBoard
    /\ screen = <<>>
    /\ probe = NoProbe

NextBudget ==
    \/ BoardLoopStep
    \/ RenderTrainBoard

\* the dashboard laid out on terminals of several heights, with and without the panels
SpecBudget == InitBudget /\ [][NextBudget]_vars

\* playback snapshots for the progress bar: no duration, positions whose share of the
\* bar falls on a half cell (10/800 and 390/800 of 40 cells), a position past the end, a
\* reference timestamp in the future, playing and paused
ProgressTracks ==
    {[SampleTrack EXCEPT !.progress_ms = progress, !.duration_ms = duration,
                         !.timestamp = timestamp, !.isPlaying = playing,
                         !.tempo = 120] :
        progress \in {0, 10, 390, 900},
        duration \in {0, 800},
        timestamp \in {0, ClockStepMs, 100000},
        playing \in BOOLEAN}

\* the demo driver's call on each snapshot, on a terminal of 80 and of 140 columns
InitProgress ==
    /\ now = ClockStepMs
    /\ stdoutRows = 0
    /\ stdoutColumns \in {0, 140}
    /\ previousFrame = <<>>
    /\ shared = FALSE
    /\ lines = <<>>
    /\ written = <<>>
    /\ writtenBefore = <<>>
    /\ call = NoCall
    /\ hist = <<>>
    /\ calcArgs = [bpm |-> 0, progressMs |-> 0, timestamp |-> 0, timeSignature |-> <<>>,
                   isPlaying |-> TRUE, now |-> ClockStepMs]
    /\ phraseInfo = PhraseDefault
    /\ calcDone = FALSE
    /\ \E t \in ProgressTracks : boardArgs = BoardArgsOf(<<t>>, SampleRecommendations, DemoUi)
    /\ board = NoBoard
    /\ screen = <<>>
    /\ probe = NoProbe

NextProgress ==
    \/ BoardLoopStep
    \/ BoardTick

\* the demo loop on each playback snapshot while the clock advances
SpecProgress == InitProgress /\ [][NextProgress]_vars

(***************************************************************************)
(* Vocabulary of the properties.                                           *)
(***************************************************************************)
\* the first min(Len(s), n) elements of s
FirstRows(s, n) == [i \in 1..(IF Len(s) < n THEN Len(s) ELSE n) |-> s[i]]

\* positions, in the output w of one operation, of the row writes addressed to row r
RowWritesFor(w, r) ==
    {k \in DOMAIN Flatten(w) : Flatten(w)[k].op = "row" /\ Flatten(w)[k].row = r}

\* the 0-based row indices the output w writes
RowsWritten(w) ==
    {Flatten(w)[k].row - 1 : k \in {j \in DOMAIN Flatten(w) : Flatten(w)[j].op = "row"}}

\* every row index a frame or a baseline of the model can have
RowIndices == 0..(MaxLen + 1)

\* the clipped frame of the last writeFrame call
CallFrame == FirstRows(call.lines, call.height)

(***************************************************************************)
(* C1: when renderTrainBoard is called twice in a row with identical       *)
(* arguments, identical terminal dimensions and the clock frozen, the      *)
(* second call writes zero bytes to the output stream: no write at all, or *)
(* only writes of nothing.                                                 *)
(***************************************************************************)
C1_SecondCallWritesNothing ==
    (call.op = "writeFrame" /\ board.repeat) => Flatten(written) = <<>>

(***************************************************************************)
(* C11: renderTrainBoard clamps scrollOffset into [0, maxScroll], where    *)
(* maxScroll = max(0, rows of the list - visible window): the returned     *)
(* clampedOffset lies in that range, equals the input when the input is in *)
(* range, the list rows of the frame are exactly                           *)
(* rows[clampedOffset : clampedOffset + window], and a call that feeds the *)
(* returned clampedOffset back with the same inputs returns the same pair. *)
(***************************************************************************)
C11_ScrollClamp ==
    board.op = "renderTrainBoard" =>
        LET rows == board.layout.displayLines
            window == board.layout.availableForRecs
            first == board.layout.usedLinesTop
            offset == board.clampedOffset
            shown == Min(window, Len(rows) - offset)
        IN /\ board.maxScroll = Max(0, Len(rows) - window)
           /\ 0 <= offset /\ offset <= board.maxScroll
           /\ (0 <= board.args.scrollOffset /\ board.args.scrollOffset <= board.maxScroll)
                 => offset = board.args.scrollOffset
           /\ \A i \in 1..shown : call.lines[first + i] = rows[offset + i]
           /\ board.layout.visibleLines = [i \in 1..shown |-> rows[offset + i]]
           /\ board.fedBack => <<offset, board.maxScroll>> = board.before

\* an offset beyond the end was clamped to a positive maxScroll, fed back, and returned again
C11_Witness ==
    /\ board.op = "renderTrainBoard"
    /\ board.fedBack /\ ~board.repeat
    /\ board.maxScroll > 0
    /\ board.clampedOffset = board.maxScroll
    /\ Len(board.layout.visibleLines) > 0

(***************************************************************************)
(* C12: when the terminal is too short to show any recommendation row (the *)
(* visible window is 0 or less) while the list has at least one row, the   *)
(* frame renderTrainBoard lays out holds exactly one 'Terminal too small   *)
(* to show tracks' row, in the place of the list.                          *)
(***************************************************************************)
C12_TooSmallNotice ==
    (/\ board.op = "renderTrainBoard"
     /\ board.layout.availableForRecs <= 0
     /\ Len(board.layout.displayLines) > 0) =>
        /\ Cardinality({i \in DOMAIN call.lines : call.lines[i] = TooSmallNotice}) = 1
        /\ call.lines[board.layout.usedLinesTop + 1] = TooSmallNotice

\* the recommendations of one transition type, in input order
TracksOfType(recs, type) == SelectSeq(recs, LAMBDA r : r.shiftType = type)

\* the recommendations the selected category leaves to list
RecsLeft(a) ==
    IF a.selectedCategory = "ALL" THEN a.recommendations
    ELSE TracksOfType(a.recommendations, a.selectedCategory)

(***************************************************************************)
(* C13: whenever no recommendation is left to list (the input is empty, or *)
(* the selected category has no track), the list renderTrainBoard lays out *)
(* is a placeholder, not an empty list: the 'Library is empty' tip exactly *)
(* when totalTracksInLibrary = 0, the 'No harmonic matches' row otherwise. *)
(***************************************************************************)
C13_Placeholder ==
    (board.op = "renderTrainBoard" /\ RecsLeft(board.args) = <<>>) =>
        LET list == board.layout.displayLines
            has(row) == \E i \in DOMAIN list : list[i] = row
        IN /\ list # <<>>
           /\ has(LibraryEmptyRow) <=> board.args.totalTracksInLibrary = 0
           /\ has(NoMatchesRow) <=> board.args.totalTracksInLibrary # 0

\* the transition types in the enumeration order the list follows
EnumerationOrder == <<"Smooth", "Mood Switch", "Energy Up", "Rhythmic/Dead-End Breaker">>

\* rows a type takes in the ALL view: its header and its tracks, or nothing
GroupSize(recs, type) ==
    IF Len(TracksOfType(recs, type)) = 0 THEN 0 ELSE Len(TracksOfType(recs, type)) + 1

RECURSIVE RowsBefore(_, _)
RowsBefore(recs, k) ==
    IF k <= 1 THEN 0 ELSE RowsBefore(recs, k - 1) + GroupSize(recs, EnumerationOrder[k - 1])

\* effectiveWidth of the last renderTrainBoard call
BoardWidth == Max(62, Min(TerminalWidthOf(board.columns), 120) - 2)

\* list[at + 1] is the header of type and the rows after it are its tracks in input order
GroupAt(list, at, type, a) ==
    LET ts == TracksOfType(a.recommendations, type)
    IN /\ Len(list) >= at + 1 + Len(ts)
       /\ list[at + 1] = CategoryHeader(type, a.selectedCategory)
       /\ \A i \in 1..Len(ts) : list[at + 1 + i] = TrackRow(ts[i], a.currentTrack, BoardWidth)

\* C19 for the ALL view
AllViewGrouped ==
    LET a == board.args
        list == board.layout.displayLines
        nonEmpty == {k \in 1..4 : Len(TracksOfType(a.recommendations, EnumerationOrder[k])) > 0}
    IN /\ Len(list) = Len(a.recommendations) + Cardinality(nonEmpty)
       /\ \A k \in nonEmpty : GroupAt(list, RowsBefore(a.recommendations, k),
                                      EnumerationOrder[k], a)

C19_WitnessSelected ==
    /\ board.op = "renderTrainBoard"
    /\ board.args.selectedCategory = "Smooth"
    /\ Len(board.layout.displayLines) = 4

\* the row of the last dashboard frame that holds the progress bar: after the five header
\* rows, the notice rows and three rows about the track
BarRow ==
    LET notices == board.args.notices
    IN call.lines[5 + (IF Len(notices) > 0 THEN Len(notices) + 1 ELSE 0) + 4]

\* the bar with the given numbers of filled and empty cells
BarOf(filled, empty) == "  " \o Repeat("#", filled) \o Repeat("-", empty)

\* the numbers of filled cells for which the row is a bar (at most one)
FilledCells(row) == {f \in 0..(Len(row) - 2) : row = BarOf(f, Len(row) - 2 - f)}

\* n is x rounded to the nearest integer, halves upwards (Math.round)
IsNearest(n, num, den) == 2 * n * den <= 2 * num + den /\ 2 * num + den < 2 * (n + 1) * den

OtherClocks == {k * ClockStepMs : k \in 0..MaxBoardTicks}

OtherTimestamps == {0, ClockStepMs, 100000}

(***************************************************************************)
(* C20: when the track is not playing, PhraseCounter.calculate and the     *)
(* progress bar of the dashboard give, for the same bpm, progress and      *)
(* duration, the same result at every current time and for every reference *)
(* timestamp: the loop's phrase information and bar row equal those of any *)
(* call that differs only in the clock or in the timestamp.                *)
(***************************************************************************)
C20_PausedIgnoresClock ==
    (board.op = "renderTrainBoard" /\ call.op = "writeFrame" /\ calcDone
            /\ board.args.currentTrack # <<>> /\ ~board.args.currentTrack[1].isPlaying) =>
        LET t == board.args.currentTrack[1]
        IN \A timestamp \in OtherTimestamps : \A nowMs \in OtherClocks :
            /\ calculate(t.tempo, t.progress_ms, timestamp, t.time_signature, FALSE, nowMs)
                    = phraseInfo
            /\ board.args.phraseInfo = <<phraseInfo>>
            /\ LET p == ProgressBar([t EXCEPT !.timestamp = timestamp], BoardWidth, nowMs)
               IN BarRow = BarOf(p.filledLen, p.emptyLen)

\* a paused track drawn part-way through, after the clock moved past its reference timestamp
C20_Witness ==
    /\ board.op = "renderTrainBoard"
    /\ call.op = "writeFrame"
    /\ calcDone
    /\ board.args.currentTrack # <<>>
    /\ ~board.args.currentTrack[1].isPlaying
    /\ board.args.currentTrack[1].timestamp = ClockStepMs
    /\ board.args.currentTrack[1].progress_ms = 390
    /\ board.args.currentTrack[1].duration_ms = 800
    /\ board.now > ClockStepMs
    /\ RatLt(Num(0), phraseInfo.beatsRemaining)

(***************************************************************************)
(* C16: every writeFrame call makes at most one write to the output        *)
(* stream; in that write the cursor-home sequence occurs exactly once, as  *)
(* its first piece, before every per-row write, and the per-row writes     *)
(* follow in strictly ascending row order.                                 *)
(***************************************************************************)
C16_OneBatchedWrite ==
    call.op = "writeFrame" =>
        /\ Len(written) <= 1
        /\ \A w \in DOMAIN written :
            LET out == written[w]
            IN /\ Cardinality({k \in DOMAIN out : out[k].op = "home"}) = 1
               /\ out[1].op = "home"
               /\ \A k \in DOMAIN out : k > 1 => out[k].op = "row"
               /\ \A j, k \in DOMAIN out :
                    (j < k /\ out[j].op = "row" /\ out[k].op = "row") => out[j].row < out[k].row

\* a call that rewrites two rows: one write holding the cursor-home and both rows
C16_Witness ==
    /\ call.op = "writeFrame"
    /\ Len(written) = 1
    /\ Cardinality(RowsWritten(written)) >= 2

(***************************************************************************)
(* C15: after renderNarrowWarning, called once dashboard frames have been  *)
(* written by the same renderer, the terminal shows the rows of the narrow *)
(* warning and nothing else: no row written by a dashboard frame is left.  *)
(***************************************************************************)
C15_WarningReplacesDashboard ==
    (call.op = "renderNarrowWarning" /\ board.op = "renderTrainBoard") =>
        screen = [i \in 1..Len(screen) |-> RowAt(call.lines, i - 1)]

\* residue is one of the width consecutive residues starting at phase, modulo cycle
InWindow(residue, phase, width, cycle) ==
    \E k \in 0..(width - 1) : residue = (phase + k) % cycle

\* a border cell drawn in the ripple colour with the ripple glyph, and in the base colour
RippleCell == FRAME_RIPPLE_COLOR \o RIPPLE_GLYPH \o reset

BaseCell == FRAME_BASE_COLOR \o "=" \o reset

(***************************************************************************)
(* C17: with an active ripple of band 5, a border cell (row, col) is drawn *)
(* in ripple exactly when (row + col) mod cycle is one of the 5            *)
(* consecutive residues starting at phase, wrapping modulo cycle; with an  *)
(* inactive ripple no cell is drawn in ripple.                             *)
(***************************************************************************)
C17_RippleWindow ==
    probe.op = "colorizeFrameChar" =>
        LET ripple == probe.args.ripple
            residue == (probe.args.row + probe.args.col) % ripple.cycle
        IN /\ probe.result \in {RippleCell, BaseCell}
           /\ probe.result = RippleCell
                <=> (ripple.active /\ InWindow(residue, ripple.phase, 5, ripple.cycle))

\* the step interval of the tier of beatsRemaining, 0 for the frozen tier
TierStepMs(beatsRemaining) ==
    IF RatLe(beatsRemaining, Num(8)) THEN 0
    ELSE IF RatLe(beatsRemaining, Num(16)) THEN 50
    ELSE IF RatLe(beatsRemaining, Num(32)) THEN 100
    ELSE 250

\* the circular distance of two cells on the ring of 32
RingDistance(i, j) == Min((i - j) % 32, (j - i) % 32)

\* the gradient factor at a circular distance from the centre
FactorAt(distance) ==
    IF distance = 0 THEN Num(1) ELSE IF distance = 1 THEN Rat(6, 10) ELSE Rat(3, 10)

\* the cell at position i of the bar for beatsRemaining, highlighted with the factor
HighlightedCell(i, beatsRemaining, factor) ==
    makeBg(getScanSettings(beatsRemaining).baseColor, factor)
        \o (IF TierStepMs(beatsRemaining) = 0 THEN bright ELSE reset)
        \o (IF Num(i + 1).num * beatsRemaining.den <= beatsRemaining.num THEN "#" ELSE ".")
        \o reset

\* the same cell outside the pulse
PlainCell(i, beatsRemaining) ==
    BASE_BAR_BG \o dim
        \o (IF Num(i + 1).num * beatsRemaining.den <= beatsRemaining.num THEN "#" ELSE ".")
        \o reset

RECURSIVE JoinCells(_)
JoinCells(cells) == IF cells = <<>> THEN "" ELSE Head(cells) \o JoinCells(Tail(cells))

(***************************************************************************)
(* C18: the scanline pulse.  For beatsRemaining <= 8 the centre is cell 16 *)
(* at every clock value; for <= 16 it is floor(now/50) mod 32, for <= 32   *)
(* floor(now/100) mod 32, above 32 floor(now/250) mod 32.  The centre is   *)
(* in 0..31 and one step interval later it is the next cell (31 wraps to   *)
(* 0).  Exactly the 5 cells at circular distance 0, 1, 2 from the centre   *)
(* are highlighted, with gradient factors 1, 0.6, 0.3; the others are      *)
(* plain.                                                                  *)
(***************************************************************************)
C18_ScanlinePulse ==
    probe.op = "buildScanlineBar" =>
        LET beats == probe.args.beatsRemaining
            step == TierStepMs(beats)
            centre == IF step = 0 THEN 16 ELSE (probe.args.now \div step) % 32
            cells == probe.result.colored
            lit == {i \in 0..31 : cells[i + 1] # PlainCell(i, beats)}
        IN /\ centre \in 0..31
           /\ Len(cells) = 32
           /\ probe.result.bar = JoinCells(cells)
           /\ \A i \in 0..31 :
                cells[i + 1] = IF RingDistance(i, centre) <= 2
                               THEN HighlightedCell(i, beats, FactorAt(RingDistance(i, centre)))
                               ELSE PlainCell(i, beats)
           /\ Cardinality(lit) = 5
           /\ step > 0 =>
                ScanColored(beats, probe.args.now + step)[((centre + 1) % 32) + 1]
                    = HighlightedCell((centre + 1) % 32, beats, Num(1))
           /\ step = 0 =>
                \A later \in {1, 50, 100, 250} :
                    ScanColored(beats, probe.args.now + later) = cells

\* an advancing pulse centred on the last cell: the highlight wraps to cells 0 and 1
C18_Witness ==
    /\ probe.op = "buildScanlineBar"
    /\ TierStepMs(probe.args.beatsRemaining) = 50
    /\ (probe.args.now \div 50) % 32 = 31
    /\ probe.result.colored[32] = HighlightedCell(31, probe.args.beatsRemaining, Num(1))
    /\ probe.result.colored[2] = HighlightedCell(1, probe.args.beatsRemaining, Rat(3, 10))

\* a frozen pulse
C18_WitnessFrozen ==
    /\ probe.op = "buildScanlineBar"
    /\ TierStepMs(probe.args.beatsRemaining) = 0
    /\ probe.args.now > DrawStepMs
    /\ probe.result.colored[17] = HighlightedCell(16, probe.args.beatsRemaining, Num(1))

(***************************************************************************)
(* C21: diff rendering is a full repaint.  From a cleared screen and an    *)
(* empty baseline, at a constant terminal height, after any sequence of    *)
(* writeFrame calls every screen row i shows row i of the last frame       *)
(* written (blank when that frame has no row i), and the stored baseline   *)
(* is what the screen shows.                                               *)
(***************************************************************************)
C21_DiffIsFullRepaint ==
    /\ Len(screen) = TerminalHeightOf(stdoutRows)
    /\ \A i \in DOMAIN screen : screen[i] = RowAt(previousFrame, i - 1)
    /\ Len(previousFrame) <= Len(screen)
    /\ call.op = "writeFrame" =>
         \A i \in DOMAIN screen : screen[i] = RowAt(call.lines, i - 1)

\* a shorter frame after a longer one: the row the new frame lacks was blanked
C21_Witness ==
    /\ call.op = "writeFrame"
    /\ Len(call.prev) > Len(call.lines)
    /\ Len(call.lines) > 0
    /\ RowAt(call.prev, Len(call.prev) - 1) # ""
    /\ screen[Len(call.prev)] = ""
    /\ screen[1] # ""

\* the frame of the last call holds the title row of the scanline phrase section
ScanlineLaidOut ==
    \E i \in DOMAIN call.lines : call.lines[i] = bright \o "T  Phrase Matching" \o reset

\* the frame of the last call holds the two rows of the disabled-state message
DisabledLaidOut ==
    \E i \in DOMAIN call.lines, signature \in {0, 3, 5} :
        /\ call.lines[i] = yellow \o "!  Non-4/4 time signature detected ("
                              \o ToString(signature) \o "/4)" \o reset
        /\ i < Len(call.lines)
        /\ call.lines[i + 1] = dim \o "Phrase counter disabled for non-4/4 tracks" \o reset

\* the demo loop drew the dashboard from the phrase information it had just calculated
DrawnFromCalculate ==
    /\ board.op = "renderTrainBoard"
    /\ call.op = "writeFrame"
    /\ calcDone
    /\ board.args.currentTrack # <<>>
    /\ board.args.phraseInfo = <<phraseInfo>>

(***************************************************************************)
(* C22: for a current track whose time signature is defined and not 4, at  *)
(* every tempo, the dashboard drawn from the result of calculate does not  *)
(* lay out the scanline phrase bar and does lay out the 'Non-4/4 time      *)
(* signature detected' message; the two are never laid out together.       *)
(***************************************************************************)
C22_NonFourFourDisabled ==
    DrawnFromCalculate =>
        /\ ~(ScanlineLaidOut /\ DisabledLaidOut)
        /\ LET signature == board.args.currentTrack[1].time_signature
           IN (signature # <<>> /\ signature[1] # 4) =>
                (~ScanlineLaidOut /\ DisabledLaidOut)

\* terminalHeight - 1 - (fixed top rows) - (reserved bottom rows) of the last dashboard
LayoutBudget ==
    TerminalHeightOf(board.rows) - 1 - board.layout.usedLinesTop - board.layout.reservedLines

\* the rows of the log panel: a blank row, a rule, the header, then one row per log
LogPanel(logs) ==
    IF Len(logs) = 0 THEN <<>>
    ELSE <<"", dim \o Repeat("-", BoardWidth) \o reset, bright \o red \o "DEBUG LOGS:" \o reset>>
            \o [i \in 1..Len(logs) |-> dim \o logs[i] \o reset]

\* the rows of the help panel: a blank row, then the six rows of the panel
HelpPanel(showHelp) ==
    IF showHelp THEN <<"">> \o buildHelpPanel(BoardWidth) ELSE <<>>

\* the rows of frame from row first + 1 on are those of panel
PanelAt(frame, first, panel) ==
    /\ first + Len(panel) <= Len(frame)
    /\ \A i \in DOMAIN panel : frame[first + i] = panel[i]

(***************************************************************************)
(* C23: whenever terminalHeight - 1 - (fixed top rows) - (reserved bottom  *)
(* rows) >= 0, the frame renderTrainBoard hands to writeFrame has exactly  *)
(* terminalHeight rows; its last rows are the status bar, 2 rows when the  *)
(* exit prompt is showing and 3 otherwise; the log panel and the help      *)
(* panel, when requested, stand in full above it; so the clipped frame is  *)
(* the frame itself.                                                       *)
(***************************************************************************)
C23_LayoutBudget ==
    (board.op = "renderTrainBoard" /\ call.op = "writeFrame" /\ LayoutBudget >= 0) =>
        LET frame == call.lines
            height == TerminalHeightOf(board.rows)
            a == board.args
            statusRows == IF a.showExitWarning THEN 2 ELSE 3
            listEnd == board.layout.usedLinesTop + Len(board.layout.visibleLines)
            logs == LogPanel(a.logs)
            help == HelpPanel(a.showHelp)
            ripple == buildRippleState(BoardWidth + 2, height, a.currentTrack # <<>>, board.now)
        IN /\ Len(frame) = height
           /\ frame[height - statusRows + 1]
                = buildRippleBorderLine(BoardWidth, height - statusRows, ripple, TRUE)
           /\ IF a.showExitWarning
              THEN frame[height] = " Press Ctrl-C again to exit "
              ELSE /\ frame[height - 1] = zshGreen \o "user@host" \o reset \o " | " \o white
                        \o "w/s: scroll | tab: category | r: refresh | h: help" \o reset
                   /\ frame[height] = zshBlue \o "~/cwd" \o "  " \o zshYellow \o "<main>" \o reset
           /\ PanelAt(frame, listEnd, logs)
           /\ PanelAt(frame, listEnd + Len(logs), help)
           /\ listEnd + Len(logs) + Len(help) <= height - statusRows
           /\ \A i \in (listEnd + Len(logs) + Len(help) + 1)..(height - statusRows) :
                frame[i] = ""
           /\ CallFrame = frame
           /\ previousFrame = frame

\* a frame with the exit prompt, the help panel and the log panel, the budget not negative
C23_Witness ==
    /\ board.op = "renderTrainBoard"
    /\ call.op = "writeFrame"
    /\ LayoutBudget >= 0
    /\ board.args.showExitWarning
    /\ board.args.showHelp
    /\ Len(board.args.logs) > 0
    /\ Len(call.lines) = TerminalHeightOf(board.rows)

\* the budget exactly used up: no room for the list, nothing cut
C23_WitnessExact ==
    /\ board.op = "renderTrainBoard"
    /\ call.op = "writeFrame"
    /\ LayoutBudget = 0
    /\ Len(board.layout.displayLines) > 0

(***************************************************************************)
(* C2: in every writeFrame call, row i gets a row write (cursor to row     *)
(* i+1, the new content, clear to end of line) exactly when row i of the   *)
(* clipped new frame differs from row i of the previous frame, a missing   *)
(* row counting as the empty row; unchanged rows get nothing.              *)
(***************************************************************************)
C2_RowWrittenIffChanged ==
    call.op = "writeFrame" =>
        /\ \A i \in RowIndices :
            LET ks == RowWritesFor(written, i + 1)
            IN IF RowAt(CallFrame, i) # RowAt(call.prev, i)
               THEN /\ Cardinality(ks) = 1
                    /\ \A k \in ks : Flatten(written)[k].text = RowAt(CallFrame, i)
               ELSE ks = {}
        /\ RowsWritten(written) \subseteq RowIndices

\* a call that leaves a non-empty row alone and blanks a row the new frame no longer has
C2_Witness ==
    /\ call.op = "writeFrame"
    /\ Len(call.prev) > Len(CallFrame)
    /\ \E i \in RowIndices : /\ i < Len(CallFrame)
                             /\ RowAt(CallFrame, i) = RowAt(call.prev, i)
                             /\ RowAt(CallFrame, i) # ""
                             /\ RowWritesFor(written, i + 1) = {}
    /\ RowAt(call.prev, Len(call.prev) - 1) # ""
    /\ \E k \in RowWritesFor(written, Len(call.prev)) : Flatten(written)[k].text = ""

(***************************************************************************)
(* C3: round trip.  Writing A, then B, then A again at a constant terminal *)
(* height: the third call writes exactly the rows where A and B differ,    *)
(* the same rows the second call wrote, each with A's content, and the     *)
(* baseline is again the baseline left by the first call.                  *)
(***************************************************************************)
C3_RoundTrip ==
    (Len(hist) = 3 /\ hist[1].lines = hist[3].lines) =>
        LET h == TerminalHeightOf(stdoutRows)
            A == FirstRows(hist[1].lines, h)
            B == FirstRows(hist[2].lines, h)
            differ == {i \in RowIndices : RowAt(A, i) # RowAt(B, i)}
            third == Flatten(written)
        IN /\ RowsWritten(written) = differ
           /\ RowsWritten(writtenBefore) = differ
           /\ \A k \in DOMAIN third :
                third[k].op = "row" => third[k].text = RowAt(A, third[k].row - 1)
           /\ \A i \in differ : Cardinality(RowWritesFor(written, i + 1)) = 1
           /\ hist[3].post = hist[1].post
           /\ previousFrame = hist[1].post

\* A, B, A written with A longer than B and a row in which both are non-empty and differ
C3_Witness ==
    /\ Len(hist) = 3
    /\ hist[1].lines = hist[3].lines
    /\ Len(hist[1].post) > Len(hist[2].post)
    /\ Len(hist[2].post) > 0
    /\ hist[1].post[1] # hist[2].post[1]
    /\ hist[1].post[1] # ""
    /\ hist[2].post[1] # ""
    /\ Cardinality(RowsWritten(written)) >= 2

(***************************************************************************)
(* C4: after resetFrameCache(), the next writeFrame(rows) emits a row      *)
(* write for every row of the clipped frame.                               *)
(***************************************************************************)
C4_ResetForcesFullRepaint ==
    (call.op = "writeFrame" /\ call.fresh) =>
        \A r \in 1..Len(CallFrame) : RowWritesFor(written, r) # {}

(***************************************************************************)
(* C5: every row write of a writeFrame call targets a row number that is   *)
(* at most the terminal height sampled by that call.                       *)
(***************************************************************************)
C5_NoWritePastLastRow ==
    call.op = "writeFrame" =>
        \A k \in DOMAIN Flatten(written) :
            Flatten(written)[k].op = "row" => Flatten(written)[k].row <= call.height

(***************************************************************************)
(* C6: after writeFrame(rows) the baseline is the first                    *)
(* min(Len(rows), terminalHeight) rows of rows, so it is never longer than *)
(* the terminal height of that call; it is a copy of its own (what the     *)
(* caller later does to rows does not reach it), and writeFrame leaves     *)
(* rows as the caller passed it.                                           *)
(***************************************************************************)
C6_BaselineIsClippedCopy ==
    call.op = "writeFrame" =>
        /\ previousFrame = FirstRows(call.lines, call.height)
        /\ Len(previousFrame) <= call.height
        /\ Len(previousFrame) = (IF Len(call.lines) < call.height
                                 THEN Len(call.lines) ELSE call.height)
        /\ ~shared
        /\ call.after = call.lines

\* a frame longer than the terminal was written and the caller then emptied its array
C6_Witness ==
    /\ call.op = "writeFrame"
    /\ Len(call.lines) > call.height
    /\ Len(previousFrame) = call.height
    /\ lines = <<>>

(***************************************************************************)
(* C7: for every bpm <= 0, whatever the other arguments, calculate returns *)
(* (beatsRemaining 32, timeRemainingSeconds 0, phraseCount 1).             *)
(***************************************************************************)
C7_NonPositiveBpmDefault ==
    (calcDone /\ calcArgs.bpm <= 0) =>
        /\ phraseInfo.beatsRemaining = [num |-> 32, den |-> 1]
        /\ phraseInfo.timeRemainingSeconds = [num |-> 0, den |-> 1]
        /\ phraseInfo.phraseCount = 1

\* calculate was called with a negative bpm on a playing 3/4 track after time has passed
C7_Witness ==
    /\ calcDone
    /\ calcArgs.bpm < 0
    /\ calcArgs.timeSignature = <<3>>
    /\ calcArgs.isPlaying
    /\ calcArgs.timestamp > 0
    /\ calcArgs.now > calcArgs.timestamp
    /\ phraseInfo.phraseCount = 1

(***************************************************************************)
(* C8, as claimed: for every input whose timeSignature is defined and not  *)
(* 4 the result is (0, 0, 0).                                              *)
(***************************************************************************)
IsZeroPhrase(p) ==
    /\ p.beatsRemaining = [num |-> 0, den |-> 1]
    /\ p.timeRemainingSeconds = [num |-> 0, den |-> 1]
    /\ p.phraseCount = 0

C9_PhraseRange ==
    (/\ calcDone
     /\ calcArgs.bpm > 0
     /\ (calcArgs.timeSignature = <<>> \/ calcArgs.timeSignature = <<4>>)) =>
        /\ phraseInfo.beatsRemaining.num >= 0
        /\ phraseInfo.beatsRemaining.num <= 32 * phraseInfo.beatsRemaining.den
        /\ phraseInfo.phraseCount >= 1

(***************************************************************************)
(* C10: for bpm > 0 in 4/4, with position = progressMs + (now - reference  *)
(* timestamp if playing, else 0), a reference timestamp <= 0 standing for  *)
(* now, and totalBeats = position / (60000 / bpm):                         *)
(*   beatsRemaining = 32 - (totalBeats mod 32),                            *)
(*   timeRemainingSeconds = beatsRemaining * (60000 / bpm) / 1000,         *)
(*   phraseCount = floor(totalBeats mod 32) + 1;                           *)
(* and tempo 120, progress 0, playing, reference timestamp now - 1000      *)
(* (a timestamp of the real clock, hence positive) gives beatsRemaining 30 *)
(* and phraseCount 3.                                                      *)
(* Beats are counted here in units of 1/60000 beat, so that totalBeats is  *)
(* the integer position * bpm and mod is the integer modulus.              *)
(***************************************************************************)
C10_Position ==
    LET ref == IF calcArgs.timestamp <= 0 THEN calcArgs.now ELSE calcArgs.timestamp
    IN calcArgs.progressMs + (IF calcArgs.isPlaying THEN calcArgs.now - ref ELSE 0)

C10_PhraseFormula ==
    (/\ calcDone
     /\ calcArgs.bpm > 0
     /\ (calcArgs.timeSignature = <<>> \/ calcArgs.timeSignature = <<4>>)) =>
        LET totalUnits == C10_Position * calcArgs.bpm
            inPhrase == totalUnits % (32 * 60000)
            remaining == 32 * 60000 - inPhrase
        IN /\ phraseInfo.beatsRemaining = Rat(remaining, 60000)
           /\ phraseInfo.timeRemainingSeconds = Rat(remaining, calcArgs.bpm * 1000)
           /\ phraseInfo.phraseCount = (inPhrase \div 60000) + 1
           /\ (/\ calcArgs.bpm = 120
               /\ calcArgs.progressMs = 0
               /\ calcArgs.isPlaying
               /\ calcArgs.timestamp > 0
               /\ calcArgs.timestamp = calcArgs.now - 1000) =>
                    /\ phraseInfo.beatsRemaining = [num |-> 30, den |-> 1]
                    /\ phraseInfo.phraseCount = 3

====
